---- MODULE Spec2Model ----
(***************************************************************************)
(* Fonlok escrow backend: the settlement paths (code, e-mail link,         *)
(* milestone, dispute), idempotent payment processing and the fee split,   *)
(* modelled from the route handlers.  Every database statement or gateway  *)
(* call a handler awaits is one step of the request that runs it; requests *)
(* of different clients interleave between steps, as the Node event loop   *)
(* and the worker processes interleave them over the shared store.         *)
(***************************************************************************)
EXTENDS Integers, Sequences, FiniteSets, TLC

\* ------------------------------------------------------------------ bounds
\* Largest gross amount of the consecutive range the fee split is checked on.
MaxGross == 1200

\* ------------------------------------------------------- program constants
\* Fee rates, in thousandths (the source writes 0.02 and 0.005 as doubles;
\* Math.floor(g * 0.02) equals (g * 20) \div 1000 for every integer g up to
\* 3,000,000, checked by enumeration, and likewise for 0.005).
TOTAL_FEE_RATE == 20
REFERRAL_FEE_RATE == 5
DISPUTE_TOTAL_FEE_RATE == 20
DISPUTE_REFERRAL_FEE_RATE == 5
REFUND_FEE_RATE == 20

\* Math.floor(amount * rate) with the rate in thousandths.
FloorRate(amount, rate) == (amount * rate) \div 1000

NULL == "null"

\* ------------------------------------------------------------- fee splits
\* executePayout, step 3.
PayoutSplit(grossAmount, hasReferral) ==
  LET totalFee == FloorRate(grossAmount, TOTAL_FEE_RATE)
      referralEarning == IF hasReferral
                         THEN FloorRate(grossAmount, REFERRAL_FEE_RATE)
                         ELSE 0
  IN  [totalFee |-> totalFee,
       referralEarning |-> referralEarning,
       fonlokNet |-> totalFee - referralEarning,
       sellerReceives |-> grossAmount - totalFee]

\* executePayoutLink, step 3.
PayoutLinkSplit(grossAmount, hasReferral) ==
  LET totalFee == FloorRate(grossAmount, TOTAL_FEE_RATE)
      referralEarning == IF hasReferral
                         THEN FloorRate(grossAmount, REFERRAL_FEE_RATE)
                         ELSE 0
  IN  [totalFee |-> totalFee,
       referralEarning |-> referralEarning,
       fonlokNet |-> totalFee - referralEarning,
       sellerReceives |-> grossAmount - totalFee]

\* A split that takes the referral share out of the seller's amount.
MilestoneSplitOnTop(milestoneAmount, hasReferralMs) ==
  LET msTotalFee == FloorRate(milestoneAmount, TOTAL_FEE_RATE)
      msReferralEarning == IF hasReferralMs
                           THEN FloorRate(milestoneAmount, REFERRAL_FEE_RATE)
                           ELSE 0
  IN  [totalFee |-> msTotalFee,
       referralEarning |-> msReferralEarning,
       fonlokNet |-> msTotalFee,
       sellerReceives |-> milestoneAmount - msTotalFee - msReferralEarning]

\* POST /release-milestone/:token, step 6, on the milestone amount.
MilestoneSplit(milestoneAmount, hasReferralMs) ==
  LET msTotalFee == FloorRate(milestoneAmount, TOTAL_FEE_RATE)
      msReferralEarning == IF hasReferralMs
                           THEN FloorRate(milestoneAmount, REFERRAL_FEE_RATE)
                           ELSE 0
  IN  [totalFee |-> msTotalFee,
       referralEarning |-> msReferralEarning,
       fonlokNet |-> msTotalFee - msReferralEarning,
       sellerReceives |-> milestoneAmount - msTotalFee]

\* POST /dispute/admin/:admin_token/resolve, decision "seller".
DisputeSellerSplit(grossAmountD, hasReferralD) ==
  LET totalFeeD == FloorRate(grossAmountD, DISPUTE_TOTAL_FEE_RATE)
      referralEarningD == IF hasReferralD
                          THEN FloorRate(grossAmountD, DISPUTE_REFERRAL_FEE_RATE)
                          ELSE 0
  IN  [totalFee |-> totalFeeD,
       referralEarning |-> referralEarningD,
       fonlokNet |-> totalFeeD - referralEarningD,
       sellerReceives |-> grossAmountD - totalFeeD]

\* A refund that keeps no fee back.
DisputeBuyerRefundInFull(grossAmountB) ==
  [fonlokFee |-> 0, refundAmount |-> grossAmountB]

\* POST /dispute/admin/:admin_token/resolve, decision "buyer": the refund.
DisputeBuyerRefund(grossAmountB) ==
  LET fonlokFeeB == FloorRate(grossAmountB, REFUND_FEE_RATE)
  IN  [fonlokFee |-> fonlokFeeB, refundAmount |-> grossAmountB - fonlokFeeB]

\* ------------------------------------------------------------------ sets
\* Requests in flight: each slot runs one HTTP request from start to response.
MaxReq == 2

\* Requests in flight on the milestone routes.
MaxMsReq == 4

\* Invoices: F is a full-payment invoice, M a milestone invoice.
Invoices == {"F", "M"}

\* Payment references (payments.providerpaymentid), drawn by the payment
\* request that inserts the payments row.  The confirmation_codes
\* row a payment's processing mints is named after the reference: its code
\* and its verification token are the values only that row holds.
Refs == {"pF", "pM"}

\* What a client may present as code or token: a minted one, or anything else.
Presented == Refs \cup {"bogus"}

\* The seller's referrer (users.referred_by), when there is one.
Referrer == "R"

\* invoice_milestones rows of invoice M: id, invoice, milestone_number, amount.
Milestones == {"m1", "m2"}
MsInvoice(m) == "M"
MsNumber(m) == IF m = "m1" THEN 1 ELSE 2
MsAmount(m) == IF m = "m1" THEN 600 ELSE 400

\* release_token values: NULL, the random token a completing request draws
\* (never drawn twice, so named after the request), and anything else.
NoToken == NULL
Token(s) == "release-" \o ToString(s)
BogusToken == "bogus"

\* A timestamp column that is NULL.
NoTime == -1

\* ------------------------------------------------------------------ state
VARIABLES
  feeGross,      \* fee check: the gross amount drawn
  feeHasRef,     \* fee check: whether the seller has a referrer
  feeOut,        \* fee check: the computed splits (empty before the computation)
  invStatus,     \* invoices.status, per invoice
  invAmount,     \* invoices.amount, per invoice
  payStatus,     \* payments.status, per reference ("none": no row)
  cred,          \* confirmation_codes, per minting reference: none/unused/used
  guests,        \* guests row of an invoice: none / no_momo / momo (momo_number set)
  referredBy,    \* users.referred_by of the seller
  earnings,      \* referral_earnings rows: invoice_number -> earned_amount
  refBalance,    \* users.referral_balance of the referrer
  refWithdrawals, \* referral_withdrawals rows of the referrer: id, amount, status
  payouts,       \* payouts rows (append-only), tagged with the inserting request
  withdraws,     \* the gateway's withdraw calls, tagged with the calling request
  msStatus,      \* invoice_milestones.status, per milestone
  msToken,       \* invoice_milestones.release_token, per milestone
  dispStatus,    \* disputes.status of the invoice's dispute ("none": no row)
  processed,     \* processed_payments: the payment references claimed
  chats,         \* chats rows: the invoices that have a chat room
  mails,         \* e-mails handed to the mailer, tagged with the sending request
  now,           \* the clock (Date.now(), NOW()), in minutes
  deliveredAt,   \* invoices.delivered_at, per invoice
  dispCreatedAt, \* disputes.created_at, per invoice's dispute
  reminders,     \* invoice_reminders rows: <<invoicenumber, reminder_level>>
  escalations,   \* dispute_escalations rows: <<invoicenumber, level>>
  settings,      \* the platform_settings rows over DEFAULTS
  cache,         \* _cache of the serving process: {} for null, or {settings}
  cacheFresh,    \* whether the clock is still before _cacheExpiry
  payInvoice,    \* payments.invoiceid, per reference
  payAmount,     \* payments.amount, per reference: what the buyer is charged
  req,           \* the request each slot runs: handler, position, locals
  answered       \* the last request answered by its handler's first checks

feeVars == <<feeGross, feeHasRef, feeOut>>
invVars == <<invStatus, invAmount>>
credVars == <<payStatus, cred>>
refVars == <<referredBy, earnings, refBalance, refWithdrawals>>
ledgerVars == <<payouts, withdraws>>
msVars == <<msStatus, msToken>>
procVars == <<processed, chats, mails>>
\* Everything but the requests' own positions: the store and the gateway.
storeVars == <<invVars, credVars, guests, refVars, ledgerVars, msVars,
               dispStatus, procVars>>

\* The clock and the timestamps, the scheduled jobs' tracking tables, the
\* platform settings, the payments rows' invoice and amount.
timeVars == <<now, deliveredAt, dispCreatedAt>>
cronVars == <<reminders, escalations>>
payVars == <<payInvoice, payAmount>>
settingsVars == <<settings, cache, cacheFresh>>
extVars == <<timeVars, cronVars, settingsVars, payVars>>

\* The requests: those past their first checks, and the last one refused.
reqVars == <<req, answered>>

vars == <<feeVars, extVars, storeVars, reqVars>>

\* ---------------------------------------------------------------- requests
Slots == DOMAIN req

Idle == [kind |-> "idle", pc |-> "idle", unit |-> NULL, cred |-> NULL,
         id |-> NULL, opened_by |-> NULL,
         rows |-> <<>>, level |-> 0, levels |-> <<>>,
         rowCount |-> 0, gross |-> 0, pays |-> 0, earn |-> 0, resp |-> NULL]

\* A request that has answered: its response and nothing left to do.
Respond(r, resp) == [r EXCEPT !.pc = "done", !.resp = resp]

\* A request that goes on to its next statement, or answers 200 after its last.
Goto(r, then) == IF then = "200_ok" THEN Respond(r, then)
                 ELSE [r EXCEPT !.pc = then]

\* The invoice_number key of a referral_earnings row: the invoice number on
\* the code, link and dispute paths, `${invoicenumber}-ms${id}` on the
\* milestone path (a milestone's id names it).
EarningKey(unit) == unit

\* ------------------------------------------------------------ store reads
\* payments.invoiceid of a reference's row; the confirmation_codes row its
\* processing mints has that invoice as code_id.
RefInvoice(r) == payInvoice[r]

\* SELECT * FROM payments WHERE invoiceid = inv
PaymentRows(inv) == {p \in Refs : RefInvoice(p) = inv /\ payStatus[p] # "none"}

\* SELECT * FROM confirmation_codes WHERE code_id = inv
CodeRows(inv) == {c \in Refs : RefInvoice(c) = inv /\ cred[c] # "none"}

\* rows[0] of a result: any row of it (no ORDER BY), NULL when it is empty.
FirstRow(rows) == IF rows = {} THEN {NULL} ELSE rows

\* Slots are taken in order: the requests are interchangeable.
Free(s) ==
  /\ req[s].kind = "idle"
  /\ \A t \in Slots : t < s => req[t].kind # "idle"

\* A handler's first step: a request its checks answer at once is only
\* recorded as answered; one that passes them goes on in a free slot.
Begin(r) ==
  \/ /\ r.pc = "done"
     /\ answered' = r
     /\ UNCHANGED req
  \/ /\ r.pc # "done"
     /\ \E s \in Slots : Free(s) /\ req' = [req EXCEPT ![s] = r]
     /\ UNCHANGED answered

At(s, kind, pc) == req[s].kind = kind /\ req[s].pc = pc


\* ------------------------------------------------------ platform settings
\* The platform_settings keys of this model and their defaults.
DEFAULTS == [maintenance_mode |-> "false", payments_blocked |-> "false",
             payouts_blocked |-> "false"]

\* getSettings() of a process whose cache is empty or past its expiry and
\* whose SELECT is answered at once: the platform_settings rows.
GetSettings == settings

\* bool(settings, key): the stored strings are "true" and "false".
Bool(s, key) == s[key] = "true"

\* payoutsGuard, ahead of the routes it is mounted on: 503 when payouts are
\* blocked, next() otherwise.  r is the request, next what the route does.
PayoutsGuard(r, next) ==
  IF Bool(GetSettings, "payouts_blocked")
  THEN Respond(r, "503_payouts_blocked")
  ELSE next
\* --------------------------------------------- executePayout(Link), step 1
\* The claim without its "AND is_used = false": every row of the invoice.
LockResultUnconditional(invoiceId) == CodeRows(invoiceId)

\* UPDATE confirmation_codes SET is_used = true
\*  WHERE code_id = $1 AND is_used = false RETURNING code_id
LockResult(invoiceId) == {c \in CodeRows(invoiceId) : cred[c] = "unused"}

\* The claim left out: the request goes on to the transfer whatever the
\* row's state.
PayoutLockSkipped(s, kind) ==
  /\ At(s, kind, "claim")
  /\ req' = [req EXCEPT ![s].pc = "transfer"]
  /\ UNCHANGED <<feeVars, extVars, storeVars, answered>>

\* The atomic claim: the rows it returns are the rows it flipped.
PayoutLock(s, kind) ==
  /\ At(s, kind, "claim")
  /\ LET rows == LockResult(req[s].unit) IN
       IF rows = {}
       THEN /\ req' = [req EXCEPT ![s] = Respond(@, "500_already_processed")]
            /\ UNCHANGED cred
       ELSE /\ cred' = [c \in Refs |-> IF c \in rows THEN "used" ELSE cred[c]]
            /\ req' = [req EXCEPT ![s].pc = "transfer"]
  /\ UNCHANGED <<feeVars, extVars, invVars, payStatus, guests, refVars, ledgerVars,
                 msVars, dispStatus, procVars, answered>>

\* The withdraw with its failure swallowed: the request goes on to its next
\* statement whether the gateway made the transfer or not.
WithdrawUnchecked(s, reference, amount, to, gross, earn, then) ==
  /\ \/ withdraws' = withdraws \cup
          {[req |-> s, reference |-> reference, amount |-> amount, to |-> to]}
     \/ UNCHANGED withdraws
  /\ req' = [req EXCEPT ![s].pc = then, ![s].gross = gross,
                        ![s].pays = amount, ![s].earn = earn]
  /\ UNCHANGED <<feeVars, extVars, invVars, credVars, guests, refVars, payouts,
                 msVars, dispStatus, procVars, answered>>

\* The gateway's withdraw: the call is recorded when it succeeds; a failing
\* call throws, and the request ends with its route's 500.
Withdraw(s, reference, amount, to, gross, earn, then) ==
  /\ \/ /\ withdraws' = withdraws \cup
              {[req |-> s, reference |-> reference, amount |-> amount, to |-> to]}
        /\ req' = [req EXCEPT ![s].pc = then, ![s].gross = gross,
                              ![s].pays = amount, ![s].earn = earn]
     \/ /\ req' = [req EXCEPT ![s] = Respond(@, "500_gateway")]
        /\ UNCHANGED withdraws
  /\ UNCHANGED <<feeVars, extVars, invVars, credVars, guests, refVars, payouts,
                 msVars, dispStatus, procVars, answered>>

\* Steps 2 to 4: load the invoice and the seller's referrer, split the fee,
\* authenticate and call the gateway's withdraw.
PayoutTransfer(s) ==
  /\ At(s, "release_funds", "transfer")
  /\ LET invoiceId == req[s].unit
         grossAmount == invAmount[invoiceId]
         fees == PayoutSplit(grossAmount, referredBy # NULL)
     IN  Withdraw(s, invoiceId, fees.sellerReceives, "seller", grossAmount,
                  fees.referralEarning, "record")

PayoutLinkTransfer(s) ==
  /\ At(s, "verify_post", "transfer")
  /\ LET invoiceId == req[s].unit
         grossAmount == invAmount[invoiceId]
         fees == PayoutLinkSplit(grossAmount, referredBy # NULL)
     IN  Withdraw(s, invoiceId, fees.sellerReceives, "seller", grossAmount,
                  fees.referralEarning, "record")

\* INSERT INTO payouts (userid, amount, method, status, invoice_id, invoice_number)
PayoutInsert(s, invoice, method, status, then) ==
  /\ payouts' = payouts \cup
        {[req |-> s, invoice |-> invoice, amount |-> req[s].pays,
          method |-> method, status |-> status]}
  /\ req' = [req EXCEPT ![s] = Goto(@, then)]
  /\ UNCHANGED <<feeVars, extVars, invVars, credVars, guests, refVars, withdraws,
                 msVars, dispStatus, procVars, answered>>

\* Step 5, first statement: INSERT INTO payouts.
PayoutRecord(s, kind) ==
  /\ At(s, kind, "record")
  /\ PayoutInsert(s, req[s].unit, "Mobile Money", "paid", "complete")

\* UPDATE invoices SET status = $status WHERE id = $invoice
InvoiceUpdate(s, invoice, status, then) ==
  /\ invStatus' = [invStatus EXCEPT ![invoice] = status]
  /\ req' = [req EXCEPT ![s] = Goto(@, then)]
  /\ UNCHANGED <<feeVars, extVars, invAmount, credVars, guests, refVars, ledgerVars,
                 msVars, dispStatus, procVars, answered>>

\* Step 5, second statement: UPDATE invoices SET status = 'completed'.
\* Without a referral earning to credit the function returns after it.
PayoutComplete(s, kind) ==
  /\ At(s, kind, "complete")
  /\ InvoiceUpdate(s, req[s].unit, "completed",
                   IF req[s].earn > 0 THEN "earning" ELSE "receipt")

\* The insert without its ON CONFLICT clause and unique key: always a row.
EarningsInsertAlways(key, amount, s) ==
  earnings \cup {[key |-> key, earned |-> amount, req |-> s]}

\* INSERT INTO referral_earnings ... ON CONFLICT (invoice_number) DO NOTHING
\* RETURNING id: the row is written only when the key has none.
EarningsInsert(key, amount, s) ==
  IF \E e \in earnings : e.key = key
  THEN earnings
  ELSE earnings \cup {[key |-> key, earned |-> amount, req |-> s]}

\* The referral credit, the insert.  An insert that returned no row ends the
\* credit: the request goes on with what follows it.
ReferralInsert(s, kind, then) ==
  /\ At(s, kind, "earning")
  /\ earnings' = EarningsInsert(EarningKey(req[s].unit), req[s].earn, s)
  /\ req' = [req EXCEPT ![s] = IF Cardinality(earnings') > Cardinality(earnings)
                                THEN [@ EXCEPT !.pc = "credit"]
                                ELSE Goto(@, then)]
  /\ UNCHANGED <<feeVars, extVars, invVars, credVars, guests, referredBy, refBalance,
                 refWithdrawals,
                 ledgerVars, msVars, dispStatus, procVars, answered>>

\* The referral credit, UPDATE users SET referral_balance = referral_balance + $1.
ReferralCredit(s, kind, then) ==
  /\ At(s, kind, "credit")
  /\ refBalance' = refBalance + req[s].earn
  /\ req' = [req EXCEPT ![s] = Goto(@, then)]
  /\ UNCHANGED <<feeVars, extVars, invVars, credVars, guests, referredBy, earnings,
                 refWithdrawals,
                 ledgerVars, msVars, dispStatus, procVars, answered>>

\* The referral credit when one of its two statements throws: the catch
\* around them logs the error and the function goes on.
ReferralCreditFails(s, kind, then) ==
  /\ req[s].kind = kind /\ req[s].pc \in {"earning", "credit"}
  /\ req' = [req EXCEPT ![s] = Goto(@, then)]
  /\ UNCHANGED <<feeVars, extVars, storeVars, answered>>

\* What the settlement dispatches to the seller: the notification of step 6
\* and the receipt e-mail of step 8.
ReceiptTypes == {"payout_sent", "receipt"}

\* Steps 6 and 8 with a receipt e-mail whose failure is not caught: the
\* route answers 500.
PayoutReceiptsThrow(s, kind) ==
  /\ At(s, kind, "receipt")
  /\ \E sent \in SUBSET ReceiptTypes :
       /\ mails' = mails \cup {[req |-> s, ref |-> req[s].unit, type |-> type,
                                to |-> "seller"] : type \in sent}
       /\ req' = [req EXCEPT ![s] =
                    Respond(@, IF "receipt" \in sent THEN "200_ok"
                               ELSE "500_gateway")]
  /\ UNCHANGED <<feeVars, extVars, invVars, credVars, guests, refVars, ledgerVars,
                 msVars, dispStatus, processed, chats, answered>>

\* Steps 6 and 8: notifyUser, not awaited and catching its own errors, and
\* the receipt e-mail, sent with or without the PDF, its failure caught.
\* Each is dispatched or fails; the function returns true either way.
PayoutReceipts(s, kind) ==
  /\ At(s, kind, "receipt")
  /\ \E sent \in SUBSET ReceiptTypes :
       mails' = mails \cup {[req |-> s, ref |-> req[s].unit, type |-> type,
                             to |-> "seller"] : type \in sent}
  /\ req' = [req EXCEPT ![s] = Respond(@, "200_ok")]
  /\ UNCHANGED <<feeVars, extVars, invVars, credVars, guests, refVars, ledgerVars,
                 msVars, dispStatus, processed, chats, answered>>

\* executePayout(invoiceId), called by POST /release-funds.
ExecutePayout(s) ==
  \/ PayoutLock(s, "release_funds")
  \/ PayoutTransfer(s)
  \/ PayoutRecord(s, "release_funds")
  \/ PayoutComplete(s, "release_funds")
  \/ ReferralInsert(s, "release_funds", "receipt")
  \/ ReferralCredit(s, "release_funds", "receipt")
  \/ PayoutReceipts(s, "release_funds")

\* executePayoutLink(invoiceId), called by POST /verify-payout/:token/:id.
ExecutePayoutLink(s) ==
  \/ PayoutLock(s, "verify_post")
  \/ PayoutLinkTransfer(s)
  \/ PayoutRecord(s, "verify_post")
  \/ PayoutComplete(s, "verify_post")
  \/ ReferralInsert(s, "verify_post", "receipt")
  \/ ReferralCredit(s, "verify_post", "receipt")
  \/ PayoutReceipts(s, "verify_post")

\* ------------------------------------------------- POST /release-funds
\* The request as it arrives: the body's invoiceNumber and code.
ReleaseFundsRequest(invoiceNumber, code) ==
  [Idle EXCEPT !.kind = "release_funds", !.unit = invoiceNumber, !.cred = code]

\* The checks without the comparison of the posted code.
ReleaseFundsChecksAnyCode(invoiceNumber, code, payment, codeRow) ==
  LET r == ReleaseFundsRequest(invoiceNumber, code)
  IN  IF invoiceNumber \notin Invoices THEN Respond(r, "404_no_invoice")
      ELSE IF invStatus[invoiceNumber] = "completed"
        THEN Respond(r, "400_paid_out")
      ELSE IF payment = NULL \/ payStatus[payment] # "paid"
        THEN Respond(r, "400_not_paid")
      ELSE IF codeRow = NULL THEN Respond(r, "404_no_code")
      ELSE IF cred[codeRow] = "used" THEN Respond(r, "400_paid_out")
      ELSE [r EXCEPT !.pc = "claim"]

\* The route's checks before executePayout, on the rows it read.
ReleaseFundsChecks(invoiceNumber, code, payment, codeRow) ==
  LET r == ReleaseFundsRequest(invoiceNumber, code)
  IN  IF invoiceNumber \notin Invoices THEN Respond(r, "404_no_invoice")
      ELSE IF invStatus[invoiceNumber] = "completed"
        THEN Respond(r, "400_paid_out")
      ELSE IF payment = NULL \/ payStatus[payment] # "paid"
        THEN Respond(r, "400_not_paid")
      ELSE IF codeRow = NULL THEN Respond(r, "404_no_code")
      ELSE IF cred[codeRow] = "used" THEN Respond(r, "400_paid_out")
      ELSE IF codeRow # code THEN Respond(r, "401_wrong_code")
      ELSE [r EXCEPT !.pc = "claim"]

ReleaseFunds ==
  /\ \E invoiceNumber \in Invoices \cup {"unknown"}, code \in Presented :
       \E payment \in FirstRow(PaymentRows(invoiceNumber)),
          codeRow \in FirstRow(CodeRows(invoiceNumber)) :
         Begin(PayoutsGuard(ReleaseFundsRequest(invoiceNumber, code),
                 ReleaseFundsChecks(invoiceNumber, code, payment, codeRow)))
  /\ UNCHANGED <<feeVars, extVars, storeVars>>

\* ------------------------------------------ GET /verify-payout/:token/:id
\* The page the GET answers with, from the one row it reads.
VerifyPayoutPage(token, id) ==
  LET r == [Idle EXCEPT !.kind = "verify_get", !.unit = id, !.cred = token]
  IN  IF token \notin Refs \/ cred[token] = "none"
        THEN Respond(r, "404_invalid_link")
      ELSE IF cred[token] = "used" THEN Respond(r, "400_link_expired")
      ELSE Respond(r, "200_confirm_page")

\* A GET that consumed the credential it shows the page for.
VerifyPayoutGetClaims ==
  \E token \in Presented, id \in Invoices :
    /\ Begin(VerifyPayoutPage(token, id))
    /\ cred' = [c \in Refs |-> IF c = token /\ cred[c] = "unused"
                                THEN "used" ELSE cred[c]]
    /\ UNCHANGED <<feeVars, extVars, invVars, payStatus, guests, refVars, ledgerVars,
                   msVars, dispStatus, procVars>>

VerifyPayoutGet ==
  /\ \E token \in Presented, id \in Invoices :
       Begin(VerifyPayoutPage(token, id))
  /\ UNCHANGED <<feeVars, extVars, storeVars>>

\* ----------------------------------------- POST /verify-payout/:token/:id
\* The checks without the comparison of :id with the token's invoice.
VerifyPayoutChecksUnbound(token, id, payment) ==
  LET r == [Idle EXCEPT !.kind = "verify_post", !.unit = id, !.cred = token,
                        !.id = id]
  IN  IF token \notin Refs \/ cred[token] = "none"
        THEN Respond(r, "404_invalid_link")
      ELSE IF cred[token] = "used" THEN Respond(r, "400_link_expired")
      ELSE IF payment = NULL \/ payStatus[payment] # "paid"
        THEN Respond(r, "400_not_paid")
      ELSE [r EXCEPT !.pc = "claim", !.unit = RefInvoice(token)]

VerifyPayoutChecks(token, id, payment) ==
  LET r == [Idle EXCEPT !.kind = "verify_post", !.unit = id, !.cred = token,
                        !.id = id]
  IN  IF token \notin Refs \/ cred[token] = "none"
        THEN Respond(r, "404_invalid_link")
      ELSE IF cred[token] = "used" THEN Respond(r, "400_link_expired")
      ELSE IF RefInvoice(token) # id THEN Respond(r, "400_mismatch")
      ELSE IF payment = NULL \/ payStatus[payment] # "paid"
        THEN Respond(r, "400_not_paid")
      ELSE [r EXCEPT !.pc = "claim", !.unit = RefInvoice(token)]

VerifyPayoutPost ==
  /\ \E token \in Presented, id \in Invoices :
       \E payment \in FirstRow(IF token \in Refs
                                THEN PaymentRows(RefInvoice(token)) ELSE {}) :
         Begin(VerifyPayoutChecks(token, id, payment))
  /\ UNCHANGED <<feeVars, extVars, storeVars>>

\* ------------------------------- PATCH /invoice/milestone/:milestone_id/complete
\* Steps 1 to 4: the reads of the milestone, of its lower-numbered siblings
\* that are not released, of the invoice and of the buyer's guests row.
MilestoneCompleteChecks(milestone_id) ==
  LET r == [Idle EXCEPT !.kind = "ms_complete", !.unit = milestone_id]
  IN  IF milestone_id \notin Milestones THEN Respond(r, "404_no_milestone")
      ELSE IF msStatus[milestone_id] # "pending"
        THEN Respond(r, "400_already_marked")
      ELSE IF \E p \in Milestones :
                /\ MsInvoice(p) = MsInvoice(milestone_id)
                /\ MsNumber(p) < MsNumber(milestone_id)
                /\ msStatus[p] # "released"
        THEN Respond(r, "400_previous_not_released")
      ELSE IF guests[MsInvoice(milestone_id)] = "none"
        THEN Respond(r, "400_no_buyer")
      ELSE [r EXCEPT !.pc = "update"]

MilestoneCompleteStart ==
  /\ \E milestone_id \in Milestones \cup {"unknown"} :
       Begin(MilestoneCompleteChecks(milestone_id))
  /\ UNCHANGED <<feeVars, extVars, storeVars>>

\* Steps 5 and 6: UPDATE invoice_milestones SET status = 'completed',
\* release_token = $1 WHERE id = $2, with a token drawn for this request.
MilestoneCompleteUpdate(s) ==
  /\ At(s, "ms_complete", "update")
  /\ msStatus' = [msStatus EXCEPT ![req[s].unit] = "completed"]
  /\ msToken' = [msToken EXCEPT ![req[s].unit] = Token(s)]
  /\ req' = [req EXCEPT ![s] = Respond([@ EXCEPT !.cred = Token(s)], "200_ok")]
  /\ UNCHANGED <<feeVars, extVars, invVars, credVars, guests, refVars, ledgerVars,
                 dispStatus, procVars, answered>>

\* ------------------------------------------- the milestone release routes
\* The release tokens handed out so far, and a token nobody was given.
TokensPresented ==
  {req[s].cred : s \in {t \in Slots : req[t].kind = "ms_complete"
                                       /\ req[t].pc = "done"}}
    \cup {BogusToken}

\* SELECT * FROM invoice_milestones WHERE release_token = $1
MilestoneByToken(token) == {m \in Milestones : msToken[m] = token}

\* GET /release-milestone/:token: the page it answers with.
ReleaseMilestonePage(token, milestone) ==
  LET r == [Idle EXCEPT !.kind = "ms_get", !.unit = milestone, !.cred = token]
  IN  IF milestone = NULL THEN Respond(r, "404_invalid_link")
      ELSE IF msStatus[milestone] = "released"
        THEN Respond(r, "400_already_released")
      ELSE IF msStatus[milestone] # "completed" THEN Respond(r, "400_not_ready")
      ELSE Respond(r, "200_confirm_page")

ReleaseMilestoneGet ==
  /\ \E token \in TokensPresented :
       \E milestone \in FirstRow(MilestoneByToken(token)) :
         Begin(PayoutsGuard([Idle EXCEPT !.kind = "ms_get", !.cred = token],
                            ReleaseMilestonePage(token, milestone)))
  /\ UNCHANGED <<feeVars, extVars, storeVars>>

\* POST /release-milestone/:token, steps 1 to 4: the lookup by token, the
\* guards on the row read, the reads of the invoice and of the seller.
ReleaseMilestoneChecks(token, milestone) ==
  LET r == [Idle EXCEPT !.kind = "ms_post", !.unit = milestone, !.cred = token]
  IN  IF milestone = NULL THEN Respond(r, "404_invalid_link")
      ELSE IF msStatus[milestone] = "released"
        THEN Respond(r, "400_already_released")
      ELSE IF msStatus[milestone] # "completed" THEN Respond(r, "400_not_ready")
      ELSE [r EXCEPT !.pc = "claim", !.gross = MsAmount(milestone)]

ReleaseMilestoneStart ==
  /\ \E token \in TokensPresented :
       \E milestone \in FirstRow(MilestoneByToken(token)) :
         Begin(ReleaseMilestoneChecks(token, milestone))
  /\ UNCHANGED <<feeVars, extVars, storeVars>>

\* UPDATE invoice_milestones SET status = 'released', release_token = NULL
\*  WHERE id = $1 AND status = 'completed' RETURNING id
MilestoneLockResult(id) == {m \in {id} : msStatus[m] = "completed"}

\* Step 5, the atomic claim.
MilestoneLock(s) ==
  /\ At(s, "ms_post", "claim")
  /\ LET rows == MilestoneLockResult(req[s].unit) IN
       IF rows = {}
       THEN /\ req' = [req EXCEPT ![s] = Respond(@, "400_already_released")]
            /\ UNCHANGED msVars
       ELSE /\ msStatus' = [m \in Milestones |->
                              IF m \in rows THEN "released" ELSE msStatus[m]]
            /\ msToken' = [m \in Milestones |->
                             IF m \in rows THEN NoToken ELSE msToken[m]]
            /\ req' = [req EXCEPT ![s].pc = "transfer"]
  /\ UNCHANGED <<feeVars, extVars, invVars, credVars, guests, refVars, ledgerVars,
                 dispStatus, procVars, answered>>

\* Steps 6 and 7: the referrer's read, the split of the milestone amount,
\* the gateway's withdraw.
MilestoneTransfer(s) ==
  /\ At(s, "ms_post", "transfer")
  /\ LET milestoneAmount == req[s].gross
         fees == MilestoneSplit(milestoneAmount, referredBy # NULL)
     IN  Withdraw(s, req[s].unit, fees.sellerReceives, "seller",
                  milestoneAmount, fees.referralEarning, "record")

\* Step 8: INSERT INTO payouts.
MilestoneRecord(s) ==
  /\ At(s, "ms_post", "record")
  /\ PayoutInsert(s, MsInvoice(req[s].unit), "Mobile Money", "paid",
                  IF req[s].earn > 0 THEN "earning" ELSE "finish")

\* SELECT COUNT(*) ... WHERE invoice_id = $1 AND status != 'released'
Remaining(invoice) ==
  Cardinality({m \in Milestones : MsInvoice(m) = invoice
                                  /\ msStatus[m] # "released"})

\* Step 10, the count of the milestones that are not released.
MilestoneFinish(s) ==
  /\ At(s, "ms_post", "finish")
  /\ LET remaining == Remaining(MsInvoice(req[s].unit)) IN
       req' = [req EXCEPT ![s] =
                 IF remaining = 0
                 THEN [@ EXCEPT !.pc = "invoice", !.rowCount = remaining]
                 ELSE Respond([@ EXCEPT !.rowCount = remaining], "200_ok")]
  /\ UNCHANGED <<feeVars, extVars, storeVars, answered>>

\* Step 10, when the count was 0: UPDATE invoices SET status = 'completed'
\*  WHERE id = $1
MilestoneInvoiceUpdate(s) ==
  /\ At(s, "ms_post", "invoice")
  /\ InvoiceUpdate(s, MsInvoice(req[s].unit), "completed", "200_ok")

\* POST /release-milestone/:token past its checks.
ReleaseMilestone(s) ==
  \/ MilestoneLock(s)
  \/ MilestoneTransfer(s)
  \/ MilestoneRecord(s)
  \/ ReferralInsert(s, "ms_post", "finish")
  \/ ReferralCredit(s, "ms_post", "finish")
  \/ MilestoneFinish(s)
  \/ MilestoneInvoiceUpdate(s)

\* ------------------------------- POST /dispute/admin/:admin_token/resolve
\* disputes.admin_token of an invoice's dispute, and a token of no dispute.
AdminToken(inv) == IF inv = "F" THEN "aF" ELSE "aM"
AdminTokensPresented == {AdminToken(i) : i \in Invoices} \cup {"bogus"}

\* SELECT * FROM disputes WHERE admin_token = $1
DisputeByToken(admin_token) ==
  {i \in Invoices : dispStatus[i] # "none" /\ AdminToken(i) = admin_token}

\* external_reference of the refund's withdraw: `refund-${invoicenumber}`.
RefundReference(inv) == IF inv = "F" THEN "refund-F" ELSE "refund-M"

\* The reads and guards before the gateway is called: the dispute by its
\* admin token, the invoice, the chat and, for a refund, the buyer's
\* guests row with the number the refund goes to.
ResolveChecks(admin_token, decision, dispute) ==
  LET r == [Idle EXCEPT !.kind = decision, !.unit = dispute,
                        !.cred = admin_token]
  IN  IF dispute = NULL THEN Respond(r, "404_invalid_admin_link")
      ELSE IF dispStatus[dispute] # "open"
        THEN Respond(r, "400_already_resolved")
      ELSE IF decision = "resolve_buyer" /\ guests[dispute] # "momo"
        THEN Respond(r, "400_no_buyer_number")
      ELSE [r EXCEPT !.pc = "transfer", !.gross = invAmount[dispute]]

ResolveStart ==
  /\ \E admin_token \in AdminTokensPresented,
        decision \in {"resolve_seller", "resolve_buyer"} :
       \E dispute \in FirstRow(DisputeByToken(admin_token)) :
         Begin(ResolveChecks(admin_token, decision, dispute))
  /\ UNCHANGED <<feeVars, extVars, storeVars>>

\* Decision "seller": the referrer's read, the split, the withdraw.
DisputeTransfer(s) ==
  /\ At(s, "resolve_seller", "transfer")
  /\ LET grossAmountD == req[s].gross
         fees == DisputeSellerSplit(grossAmountD, referredBy # NULL)
     IN  Withdraw(s, req[s].unit, fees.sellerReceives, "seller",
                  grossAmountD, fees.referralEarning, "invoice")

\* Decision "buyer": the refund amount, the withdraw to the buyer's number.
RefundTransfer(s) ==
  /\ At(s, "resolve_buyer", "transfer")
  /\ LET grossAmountB == req[s].gross
         refund == DisputeBuyerRefund(grossAmountB)
     IN  Withdraw(s, RefundReference(req[s].unit), refund.refundAmount,
                  "buyer", grossAmountB, 0, "invoice")

\* UPDATE invoices SET status = 'completed' | 'refunded' WHERE id = $1
DisputeInvoiceUpdate(s, decision, status) ==
  /\ At(s, decision, "invoice")
  /\ InvoiceUpdate(s, req[s].unit, status, "dispute")

\* UPDATE disputes SET status = 'resolved_seller' | 'resolved_buyer'
\*  WHERE admin_token = $1
DisputeUpdate(s, decision, status) ==
  /\ At(s, decision, "dispute")
  /\ dispStatus' = [i \in Invoices |->
                      IF i \in DisputeByToken(req[s].cred)
                      THEN status ELSE dispStatus[i]]
  /\ req' = [req EXCEPT ![s].pc = "record"]
  /\ UNCHANGED <<feeVars, extVars, invVars, credVars, guests, refVars, ledgerVars,
                 msVars, procVars, answered>>

\* INSERT INTO payouts: the seller's payout, or the refund under its own label.
DisputeRecord(s) ==
  /\ At(s, "resolve_seller", "record")
  /\ PayoutInsert(s, req[s].unit, "Mobile Money", "paid",
                  IF req[s].earn > 0 THEN "earning" ELSE "200_ok")

RefundRecord(s) ==
  /\ At(s, "resolve_buyer", "record")
  /\ PayoutInsert(s, req[s].unit, "Refund to Buyer", "refunded", "200_ok")

\* The resolve route past its checks, decision "seller".
ResolveSeller(s) ==
  \/ DisputeTransfer(s)
  \/ DisputeInvoiceUpdate(s, "resolve_seller", "completed")
  \/ DisputeUpdate(s, "resolve_seller", "resolved_seller")
  \/ DisputeRecord(s)
  \/ ReferralInsert(s, "resolve_seller", "200_ok")
  \/ ReferralCredit(s, "resolve_seller", "200_ok")

\* The resolve route past its checks, decision "buyer".
ResolveBuyer(s) ==
  \/ RefundTransfer(s)
  \/ DisputeInvoiceUpdate(s, "resolve_buyer", "refunded")
  \/ DisputeUpdate(s, "resolve_buyer", "resolved_buyer")
  \/ RefundRecord(s)

\* ------------------------------------------- processSuccessfulPayment
PayKinds == {"webhook", "poll"}

\* The marker insert without the primary key on payment_uuid: always a row.
MarkerInsertedAlways(paymentUUID) == TRUE

\* INSERT INTO processed_payments (payment_uuid) VALUES ($1)
\* ON CONFLICT (payment_uuid) DO NOTHING: whether rowCount is 1.
MarkerInserted(paymentUUID) == paymentUUID \notin processed

\* The function's result, handed back to the route that called it.
Return(r, result) == Respond(r, result)

\* The atomic idempotency claim.
PspClaim(s, kind) ==
  /\ At(s, kind, "claim")
  /\ IF MarkerInserted(req[s].unit)
     THEN /\ processed' = processed \cup {req[s].unit}
          /\ req' = [req EXCEPT ![s].pc = "lookup", ![s].rowCount = 1]
     ELSE /\ req' = [req EXCEPT ![s] = Return(@, "already_done")]
          /\ UNCHANGED processed
  /\ UNCHANGED <<feeVars, extVars, invVars, credVars, guests, refVars, ledgerVars,
                 msVars, dispStatus, chats, mails, answered>>

\* Steps 1 and 2: the payments row of the reference, then the check that the
\* invoice has no confirmation_codes row yet.
PspLookup(s, kind) ==
  /\ At(s, kind, "lookup")
  /\ req' = [req EXCEPT ![s] =
               IF payStatus[req[s].unit] = "none" THEN Return(@, "no_payment")
               ELSE IF CodeRows(RefInvoice(req[s].unit)) # {}
                 THEN Return(@, "already_done")
               ELSE [@ EXCEPT !.pc = "mark_payment"]]
  /\ UNCHANGED <<feeVars, extVars, storeVars, answered>>

\* Step 3, UPDATE payments SET status = 'paid' WHERE providerpaymentid = $1
PspMarkPayment(s, kind) ==
  /\ At(s, kind, "mark_payment")
  /\ payStatus' = [payStatus EXCEPT ![req[s].unit] = "paid"]
  /\ req' = [req EXCEPT ![s].pc = "mark_invoice"]
  /\ UNCHANGED <<feeVars, extVars, invVars, cred, guests, refVars, ledgerVars,
                 msVars, dispStatus, procVars, answered>>

\* Step 3, UPDATE invoices SET status = 'paid' WHERE id = $1
PspMarkInvoice(s, kind) ==
  /\ At(s, kind, "mark_invoice")
  /\ InvoiceUpdate(s, RefInvoice(req[s].unit), "paid", "mint")

\* The insert without the table's other keys: the invoice's column is
\* unique as well, and the insert of an invoice that has a row is rejected
\* with 23505 whatever code was generated.
PspMintOnePerInvoice(s, kind) ==
  /\ At(s, kind, "mint")
  /\ CodeRows(RefInvoice(req[s].unit)) = {}
  /\ cred' = [cred EXCEPT ![req[s].unit] = "unused"]
  /\ req' = [req EXCEPT ![s].pc = "mail_buyer"]
  /\ UNCHANGED <<feeVars, extVars, invVars, payStatus, guests, refVars, ledgerVars,
                 msVars, dispStatus, procVars, answered>>

\* Step 5: INSERT INTO confirmation_codes, repeated with a new code until
\* no unique key rejects it.
PspMint(s, kind) ==
  /\ At(s, kind, "mint")
  /\ cred' = [cred EXCEPT ![req[s].unit] = "unused"]
  /\ req' = [req EXCEPT ![s].pc = "mail_buyer"]
  /\ UNCHANGED <<feeVars, extVars, invVars, payStatus, guests, refVars, ledgerVars,
                 msVars, dispStatus, procVars, answered>>

\* sgMail.send: the message is handed over, or the mailer fails and the
\* failure is logged; without a buyer address nothing is sent.
SendMail(s, type, to, hasAddress, then) ==
  /\ \/ /\ hasAddress
        /\ mails' = mails \cup {[req |-> s, ref |-> req[s].unit,
                                 type |-> type, to |-> to]}
     \/ UNCHANGED mails
  /\ req' = [req EXCEPT ![s] = IF then = "done" THEN Return(@, "done")
                                ELSE [@ EXCEPT !.pc = then]]
  /\ UNCHANGED <<feeVars, extVars, invVars, credVars, guests, refVars, ledgerVars,
                 msVars, dispStatus, processed, chats, answered>>

\* Steps 6 and 7: the buyer's address from guests, the confirmation e-mail.
PspMailBuyer(s, kind) ==
  /\ At(s, kind, "mail_buyer")
  /\ SendMail(s, "confirmation", "buyer",
              guests[RefInvoice(req[s].unit)] # "none", "chat")

\* Step 8: the chat token on the guests row and INSERT INTO chats ...
\* ON CONFLICT (invoicenumber) DO NOTHING.
PspChat(s, kind) ==
  /\ At(s, kind, "chat")
  /\ chats' = chats \cup {RefInvoice(req[s].unit)}
  /\ req' = [req EXCEPT ![s].pc = "mail_chat"]
  /\ UNCHANGED <<feeVars, extVars, invVars, credVars, guests, refVars, ledgerVars,
                 msVars, dispStatus, processed, mails, answered>>

\* Step 8: the chat invite to the buyer.
PspMailChat(s, kind) ==
  /\ At(s, kind, "mail_chat")
  /\ SendMail(s, "chat_invite", "buyer",
              guests[RefInvoice(req[s].unit)] # "none", "mail_seller")

\* Step 9: the invoice-paid e-mail to the seller; the function returns "done".
PspMailSeller(s, kind) ==
  /\ At(s, kind, "mail_seller")
  /\ SendMail(s, "invoice_paid", "seller", TRUE, "done")

ProcessSuccessfulPayment(s, kind) ==
  \/ PspClaim(s, kind)
  \/ PspLookup(s, kind)
  \/ PspMarkPayment(s, kind)
  \/ PspMarkInvoice(s, kind)
  \/ PspMint(s, kind)
  \/ PspMailBuyer(s, kind)
  \/ PspChat(s, kind)
  \/ PspMailChat(s, kind)
  \/ PspMailSeller(s, kind)

\* ------------------------------------------------- POST /confirmation
\* The webhook: the signature, then the status; only SUCCESSFUL is processed.
WebhookChecks(signatureValid, status, paymentUUID) ==
  LET r == [Idle EXCEPT !.kind = "webhook", !.unit = paymentUUID]
  IN  IF ~signatureValid THEN Respond(r, "401_invalid_signature")
      ELSE IF status # "SUCCESSFUL" THEN Respond(r, "200_no_action")
      ELSE [r EXCEPT !.pc = "claim"]

Webhook ==
  /\ \E signatureValid \in BOOLEAN, status \in {"SUCCESSFUL", "FAILED"},
        paymentUUID \in Refs :
       Begin(WebhookChecks(signatureValid, status, paymentUUID))
  /\ UNCHANGED <<feeVars, extVars, storeVars>>

\* ------------------------------------------- GET /poll/:invoice_number
\* The fast path on the invoice's status, then the latest payments row and
\* the gateway's answer for it.
PollChecks(invoice_number, payment, campayStatus) ==
  LET r == [Idle EXCEPT !.kind = "poll", !.unit = payment]
  IN  IF invoice_number \notin Invoices THEN Respond(r, "404_not_found")
      ELSE IF invStatus[invoice_number] \in {"paid", "delivered", "completed"}
        THEN Respond(r, "200_db_status")
      ELSE IF payment = NULL THEN Respond(r, "200_db_status")
      ELSE IF campayStatus # "SUCCESSFUL" THEN Respond(r, "200_db_status")
      ELSE [r EXCEPT !.pc = "claim"]

Poll ==
  /\ \E invoice_number \in Invoices \cup {"unknown"},
        campayStatus \in {"SUCCESSFUL", "PENDING"} :
       \E payment \in FirstRow(PaymentRows(invoice_number)) :
         Begin(PollChecks(invoice_number, payment, campayStatus))
  /\ UNCHANGED <<feeVars, extVars, storeVars>>


\* ------------------------------------------- the mint loop's iterations
\* The retries the model counts; further ones leave the count as it is.
MaxMint == 1

\* The unique keys of confirmation_codes that a freshly generated pair can
\* collide on: the short code and the link's token.
MintUniqueKeys == {"code", "verification_token"}

\* An iteration of the loop whose INSERT is rejected with 23505: the catch
\* continues, the next iteration generates a new pair.
PspMintCollides(s, kind) ==
  /\ At(s, kind, "mint")
  /\ \E key \in MintUniqueKeys :
       req' = [req EXCEPT ![s].level = IF @ < MaxMint THEN @ + 1 ELSE @]
  /\ UNCHANGED <<feeVars, extVars, storeVars, answered>>

\* An iteration whose INSERT fails with another error: the catch rethrows
\* and the function ends with the error.
PspMintThrows(s, kind) ==
  /\ At(s, kind, "mint")
  /\ req' = [req EXCEPT ![s] = Return(@, "error")]
  /\ UNCHANGED <<feeVars, extVars, storeVars, answered>>

\* ------------------------------------------------- POST /requestPayment
\* body.amount: the invoice's amount as the payment page sends it, or any
\* other positive number.
ChargeAmounts(invoiceid) == {invAmount[invoiceid]} \cup {1}

\* The route as one step: the gateway token, INSERT INTO payments with a
\* fresh reference (crypto.randomUUID(): one that no row and no marker
\* holds), the guests upsert (its failure is logged and ignored),
\* the gateway's collect.  No row of the invoice is read: neither its
\* status nor its amount nor its earlier payments.  The payments row stays
\* whether the collect is accepted (200) or not (500); payments.status is
\* left to its default.  The UPDATE of campay_reference has no column here.
RequestPaymentRows(paymentUUID, invoiceid, amount, guestSaved) ==
  /\ payStatus[paymentUUID] = "none" /\ paymentUUID \notin processed
  /\ payStatus' = [payStatus EXCEPT ![paymentUUID] = "pending"]
  /\ payInvoice' = [payInvoice EXCEPT ![paymentUUID] = invoiceid]
  /\ payAmount' = [payAmount EXCEPT ![paymentUUID] = amount]
  /\ guests' = [guests EXCEPT ![invoiceid] = IF guestSaved THEN "momo" ELSE @]

RequestPayment ==
  /\ \E paymentUUID \in Refs, invoiceid \in Invoices, guestSaved \in BOOLEAN :
       \E amount \in ChargeAmounts(invoiceid), status \in {200, 500} :
         /\ RequestPaymentRows(paymentUUID, invoiceid, amount, guestSaved)
         /\ answered' = Respond([Idle EXCEPT !.kind = "request_payment",
                                             !.unit = paymentUUID,
                                             !.gross = amount],
                                IF status = 200 THEN "200_ok"
                                ELSE "500_payment_failed")
  /\ UNCHANGED <<feeVars, timeVars, cronVars, settingsVars, invVars, cred,
                 refVars, ledgerVars, msVars, dispStatus, procVars, req>>

\* ------------------------------------------------ PATCH /invoice/edit/:id
\* body.amount of an edit.
EditAmounts == {2000}

\* UPDATE invoices SET ... amount = COALESCE($3, amount) WHERE
\* invoicenumber = $4, whatever the invoice's status.
EditInvoice ==
  /\ \E invoice_number \in Invoices, amount \in EditAmounts :
       /\ invAmount' = [invAmount EXCEPT ![invoice_number] = amount]
       /\ answered' = Respond([Idle EXCEPT !.kind = "edit",
                                           !.unit = invoice_number,
                                           !.gross = amount], "200_ok")
  /\ UNCHANGED <<feeVars, extVars, invStatus, credVars, guests, refVars,
                 ledgerVars, msVars, dispStatus, procVars, req>>

\* ------------------------------------------------- POST /referral/withdraw
\* The smallest amount the route pays out.
MIN_WITHDRAWAL_AMOUNT == 2000

\* The amounts the referrer asks for.
WithdrawalAmounts == {1999, 2000, 3000}

\* The referrer's referral_withdrawals rows in a status.
WithdrawalRows(status) == {row \in refWithdrawals : row.status = status}

\* The deduction without its referral_balance >= $1 condition.
DeductibleAnyBalance(withdrawAmount) == WithdrawalRows("pending") = {}

\* UPDATE users SET referral_balance = referral_balance - $1 WHERE id = $2
\* AND referral_balance >= $1 AND NOT EXISTS (SELECT 1 FROM
\* referral_withdrawals WHERE userid = $2 AND status = 'pending') RETURNING
\* referral_balance: whether a row comes back.
Deductible(withdrawAmount) ==
  /\ refBalance >= withdrawAmount
  /\ WithdrawalRows("pending") = {}

\* The input validation and the atomic deduction: a request whose amount is
\* below the minimum is answered 400; one whose deduction returns a row
\* goes on to log the withdrawal, one whose deduction returns none to the
\* read that tells it why.
ReferralWithdrawStart ==
  \E amount \in WithdrawalAmounts :
    LET r == [Idle EXCEPT !.kind = "ref_withdraw", !.pays = amount]
    IN  /\ IF amount < MIN_WITHDRAWAL_AMOUNT
           THEN /\ Begin(Respond(r, "400_minimum"))
                /\ UNCHANGED refBalance
           ELSE IF Deductible(amount)
           THEN /\ Begin([r EXCEPT !.pc = "log"])
                /\ refBalance' = refBalance - amount
           ELSE /\ Begin([r EXCEPT !.pc = "recheck"])
                /\ UNCHANGED refBalance
        /\ UNCHANGED <<feeVars, extVars, invVars, credVars, guests, referredBy,
                       earnings, refWithdrawals, ledgerVars, msVars,
                       dispStatus, procVars>>

\* The deduction did not happen: the second read picks the message.
WithdrawRecheck(s) ==
  /\ At(s, "ref_withdraw", "recheck")
  /\ req' = [req EXCEPT ![s] =
               Respond(@, IF WithdrawalRows("pending") # {}
                          THEN "400_pending" ELSE "400_insufficient")]
  /\ UNCHANGED <<feeVars, extVars, storeVars, answered>>

\* Step 5: INSERT INTO referral_withdrawals ... 'pending' RETURNING id.
WithdrawLog(s) ==
  /\ At(s, "ref_withdraw", "log")
  /\ refWithdrawals' = refWithdrawals \cup
        {[id |-> s, amount |-> req[s].pays, status |-> "pending"]}
  /\ req' = [req EXCEPT ![s].pc = "transfer"]
  /\ UNCHANGED <<feeVars, extVars, invVars, credVars, guests, referredBy,
                 earnings, refBalance, ledgerVars, msVars, dispStatus,
                 procVars, answered>>

\* Step 6: the gateway's withdraw to the referrer's number; a failing call
\* is caught by the route.
WithdrawTransfer(s) ==
  /\ At(s, "ref_withdraw", "transfer")
  /\ \/ /\ withdraws' = withdraws \cup
              {[req |-> s, reference |-> "ref-withdrawal",
                amount |-> req[s].pays, to |-> "referrer"]}
        /\ req' = [req EXCEPT ![s].pc = "paid"]
     \/ /\ req' = [req EXCEPT ![s].pc = "restore"]
        /\ UNCHANGED withdraws
  /\ UNCHANGED <<feeVars, extVars, invVars, credVars, guests, refVars, payouts,
                 msVars, dispStatus, procVars, answered>>

\* UPDATE referral_withdrawals SET status = $status WHERE id = $id
WithdrawalUpdate(id, status) ==
  {IF row.id = id THEN [row EXCEPT !.status = status] ELSE row :
     row \in refWithdrawals}

\* Step 7: the withdrawal marked paid, and the 200.
WithdrawPaid(s) ==
  /\ At(s, "ref_withdraw", "paid")
  /\ refWithdrawals' = WithdrawalUpdate(s, "paid")
  /\ req' = [req EXCEPT ![s] = Respond(@, "200_ok")]
  /\ UNCHANGED <<feeVars, extVars, invVars, credVars, guests, referredBy,
                 earnings, refBalance, ledgerVars, msVars, dispStatus,
                 procVars, answered>>

\* The catch without the balance's restoration.
RestoredBalanceNot(s) == refBalance

\* UPDATE users SET referral_balance = referral_balance + $1 WHERE id = $2
RestoredBalance(s) == refBalance + req[s].pays

\* The catch of the gateway's failure, first statement: the balance restored.
WithdrawRestore(s) ==
  /\ At(s, "ref_withdraw", "restore")
  /\ refBalance' = RestoredBalance(s)
  /\ req' = [req EXCEPT ![s].pc = "failed"]
  /\ UNCHANGED <<feeVars, extVars, invVars, credVars, guests, referredBy,
                 earnings, refWithdrawals, ledgerVars, msVars, dispStatus,
                 procVars, answered>>

\* The catch, second statement: the withdrawal marked failed, and the 502.
WithdrawFailed(s) ==
  /\ At(s, "ref_withdraw", "failed")
  /\ refWithdrawals' = WithdrawalUpdate(s, "failed")
  /\ req' = [req EXCEPT ![s] = Respond(@, "502_gateway")]
  /\ UNCHANGED <<feeVars, extVars, invVars, credVars, guests, referredBy,
                 earnings, refBalance, ledgerVars, msVars, dispStatus,
                 procVars, answered>>

\* The route past its deduction.
ReferralWithdraw(s) ==
  \/ WithdrawRecheck(s)
  \/ WithdrawLog(s)
  \/ WithdrawTransfer(s)
  \/ WithdrawPaid(s)
  \/ WithdrawRestore(s)
  \/ WithdrawFailed(s)

\* ------------------------------------------------------------- the clock
\* The clock counts minutes.
Hour == 60

\* Time passes: the clock moves on to a later one of the given instants.
Tick(instants) ==
  /\ \E t \in instants : t > now /\ now' = t
  /\ UNCHANGED <<feeVars, payVars, deliveredAt, dispCreatedAt, cronVars, settingsVars,
                 storeVars, reqVars>>

\* invoices.expires_at, chosen by the seller at creation: invoice F expires
\* 50 hours after the model's start, invoice M has no expiry.
ExpiresAt(inv) == IF inv = "F" THEN 50 * Hour ELSE NoTime

\* guests.created_at: the buyers' rows were saved at the model's start.
GuestsCreatedAt(inv) == 0

\* ------------------------------------------- PATCH /invoice/mark-delivered/:id
\* Steps 1 and 2: the invoice's row, which must be paid.
MarkDeliveredChecks(invoiceId) ==
  LET r == [Idle EXCEPT !.kind = "mark_delivered", !.unit = invoiceId]
  IN  IF invoiceId \notin Invoices THEN Respond(r, "404_no_invoice")
      ELSE IF invStatus[invoiceId] # "paid" THEN Respond(r, "403_not_paid")
      ELSE [r EXCEPT !.pc = "update"]

MarkDeliveredStart ==
  /\ \E invoiceId \in Invoices \cup {"unknown"} :
       Begin(MarkDeliveredChecks(invoiceId))
  /\ UNCHANGED <<feeVars, extVars, storeVars>>

\* Step 3: UPDATE invoices SET status = 'delivered', delivered_at = NOW()
\*  WHERE id = $1
MarkDeliveredUpdate(s) ==
  /\ At(s, "mark_delivered", "update")
  /\ invStatus' = [invStatus EXCEPT ![req[s].unit] = "delivered"]
  /\ deliveredAt' = [deliveredAt EXCEPT ![req[s].unit] = now]
  /\ req' = [req EXCEPT ![s].pc = "notify"]
  /\ UNCHANGED <<feeVars, payVars, now, dispCreatedAt, cronVars, settingsVars, invAmount,
                 credVars, guests, refVars, ledgerVars, msVars, dispStatus,
                 procVars, answered>>

\* Steps 4 and 5: the buyer's guests row and the delivery e-mail to it; the
\* route answers 200 with or without the e-mail.
MarkDeliveredNotify(s) ==
  /\ At(s, "mark_delivered", "notify")
  /\ \/ /\ guests[req[s].unit] # "none"
        /\ mails' = mails \cup {[req |-> s, ref |-> req[s].unit,
                                 type |-> "delivered", to |-> "buyer"]}
     \/ UNCHANGED mails
  /\ req' = [req EXCEPT ![s] = Respond(@, "200_ok")]
  /\ UNCHANGED <<feeVars, extVars, invVars, credVars, guests, refVars,
                 ledgerVars, msVars, dispStatus, processed, chats, answered>>

MarkDelivered(s) == MarkDeliveredUpdate(s) \/ MarkDeliveredNotify(s)

\* ------------------------------------------------- GET /invoice/link/:id
\* The invoice's row; an invoice past its expiry and still pending is to be
\* marked expired, any other is answered as read.
LinkChecks(invoice_number) ==
  LET r == [Idle EXCEPT !.kind = "link", !.unit = invoice_number]
  IN  IF invoice_number \notin Invoices THEN Respond(r, "404_not_found")
      ELSE IF /\ ExpiresAt(invoice_number) # NoTime
              /\ now > ExpiresAt(invoice_number)
              /\ invStatus[invoice_number] = "pending"
        THEN [r EXCEPT !.pc = "expire"]
      ELSE Respond(r, "200_invoice_details")

LinkStart ==
  /\ \E invoice_number \in Invoices \cup {"unknown"} :
       Begin(LinkChecks(invoice_number))
  /\ UNCHANGED <<feeVars, extVars, storeVars>>

\* UPDATE invoices SET status = 'expired' WHERE invoicenumber = $1
LinkExpire(s) ==
  /\ At(s, "link", "expire")
  /\ InvoiceUpdate(s, req[s].unit, "expired", "200_ok")

\* -------------------------------------- POST /dispute/open/:invoicenumber
\* What the buyer presents as chat token: the guests row's, or another.
OpenTokens == {"chat", "bogus"}

\* verifyBuyerToken: the guests row of the invoice with that chat_token.
VerifyBuyerToken(invoicenumber, token) ==
  IF guests[invoicenumber] # "none" /\ token = "chat"
  THEN invoicenumber ELSE NULL

\* The window with its end included: a seller is still refused at 48 hours.
SellerWindowOpenAtEnd(delivered_at) == (now - delivered_at) <= 48 * Hour

\* (now - deliveredAt) / (1000 * 60 * 60) < 48, on the clock's minutes.
SellerWindowOpen(delivered_at) == (now - delivered_at) < 48 * Hour

\* Steps 1 to 5: the invoice, the status guard, the seller's 48-hour rule,
\* the buyer's token, the dispute the invoice may already have.
OpenDisputeChecks(invoicenumber, opened_by, token) ==
  LET r == [Idle EXCEPT !.kind = "open_dispute", !.unit = invoicenumber,
                        !.opened_by = opened_by, !.cred = token]
  IN  IF invoicenumber \notin Invoices THEN Respond(r, "404_no_invoice")
      ELSE IF invStatus[invoicenumber] \notin {"paid", "delivered"}
        THEN Respond(r, "403_not_paid")
      ELSE IF opened_by = "seller" /\ invStatus[invoicenumber] # "delivered"
        THEN Respond(r, "403_not_delivered")
      ELSE IF opened_by = "seller"
              /\ SellerWindowOpen(deliveredAt[invoicenumber])
        THEN Respond(r, "403_too_early")
      ELSE IF opened_by = "buyer"
              /\ VerifyBuyerToken(invoicenumber, token) = NULL
        THEN Respond(r, "401_invalid_token")
      ELSE IF dispStatus[invoicenumber] # "none"
        THEN Respond(r, "409_dispute_exists")
      ELSE [r EXCEPT !.pc = "insert"]

OpenDisputeStart ==
  /\ \E invoicenumber \in Invoices \cup {"unknown"},
        opened_by \in {"seller", "buyer"}, token \in OpenTokens :
       Begin(OpenDisputeChecks(invoicenumber, opened_by, token))
  /\ UNCHANGED <<feeVars, extVars, storeVars>>

\* Steps 6 and 7: INSERT INTO disputes, status 'open', created_at NOW().
\* Every request that comes here inserts a row (DisputeRows below); dispStatus
\* and dispCreatedAt are those of the invoice's first row, the one the
\* routes' rows[0] reads.
OpenDisputeInsert(s) ==
  /\ At(s, "open_dispute", "insert")
  /\ IF dispStatus[req[s].unit] = "none"
     THEN /\ dispStatus' = [dispStatus EXCEPT ![req[s].unit] = "open"]
          /\ dispCreatedAt' = [dispCreatedAt EXCEPT ![req[s].unit] = now]
     ELSE UNCHANGED <<dispStatus, dispCreatedAt>>
  /\ req' = [req EXCEPT ![s].pc = "notify"]
  /\ UNCHANGED <<feeVars, payVars, now, deliveredAt, cronVars, settingsVars, invVars,
                 credVars, guests, refVars, ledgerVars, msVars, procVars,
                 answered>>

\* Steps 8 to 13: the system message in the chat and the e-mails to the
\* admin, the seller and the buyer; the route answers 200 with or without
\* them.
OpenDisputeNotify(s) ==
  /\ At(s, "open_dispute", "notify")
  /\ \/ mails' = mails \cup
          {[req |-> s, ref |-> req[s].unit, type |-> "dispute_opened",
            to |-> to] : to \in {"admin", "seller"}
                              \cup {b \in {"buyer"} :
                                      guests[req[s].unit] # "none"}}
     \/ UNCHANGED mails
  /\ req' = [req EXCEPT ![s] = Respond(@, "200_ok")]
  /\ UNCHANGED <<feeVars, extVars, invVars, credVars, guests, refVars,
                 ledgerVars, msVars, dispStatus, processed, chats, answered>>

OpenDispute(s) == OpenDisputeInsert(s) \/ OpenDisputeNotify(s)

\* The disputes rows the route has inserted for an invoice, one per request
\* whose INSERT ran.
DisputeRows(invoicenumber) ==
  {s \in Slots : /\ req[s].kind = "open_dispute"
                 /\ req[s].unit = invoicenumber
                 /\ \/ req[s].pc = "notify"
                    \/ req[s].pc = "done" /\ req[s].resp = "200_ok"}

\* ------------------------------------------------- POST /admin/settings
\* setSetting(key, value): the upsert of String(value).
SetSetting(key, value) ==
  settings' = [settings EXCEPT ![key] = IF value THEN "true" ELSE "false"]

\* invalidateCache()
InvalidateCache ==
  /\ cache' = {}
  /\ cacheFresh' = FALSE

\* The route with no other call of the process under way: the upsert and
\* the invalidation, after which the serving process reads the new value.
AdminSettings ==
  /\ \E value \in BOOLEAN : SetSetting("payouts_blocked", value)
  /\ InvalidateCache
  /\ UNCHANGED <<feeVars, payVars, timeVars, cronVars, storeVars, reqVars>>

\* ----------------------------------------- the settings cache, step by step
\* ALLOWED_KEYS of POST /admin/settings, the keys of DEFAULTS.
SettingKeys == DOMAIN DEFAULTS

\* The 503 of the guard of a key.
GuardRefusal(key) ==
  CASE key = "maintenance_mode" -> "503_maintenance"
    [] key = "payments_blocked" -> "503_payments_blocked"
    [] key = "payouts_blocked" -> "503_payouts_blocked"

\* maintenanceGuard, paymentsGuard and payoutsGuard with a failed read
\* answered 503 too.
GuardOutcomeFailClosed(r, how, s) ==
  IF how = "error" \/ Bool(s, r.unit)
  THEN Respond([r EXCEPT !.cred = how, !.rows = s], GuardRefusal(r.unit))
  ELSE Respond([r EXCEPT !.cred = how, !.rows = s], "next")

\* maintenanceGuard, paymentsGuard and payoutsGuard once getSettings() has
\* settled: r is the request, its unit the guard's key; how tells whether
\* the settings s came from the cache, from the rows, or were not read
\* ("error", the catch).  The 503 when they were read and the flag is
\* "true", next() otherwise.
GuardOutcome(r, how, s) ==
  IF how # "error" /\ Bool(s, r.unit)
  THEN Respond([r EXCEPT !.cred = how, !.rows = s], GuardRefusal(r.unit))
  ELSE Respond([r EXCEPT !.cred = how, !.rows = s], "next")

\* A request reaches a guard, which calls getSettings(): the cache when it
\* is set and not past its expiry, the SELECT otherwise.
GuardStart ==
  /\ \E key \in SettingKeys :
       LET r == [Idle EXCEPT !.kind = "guard", !.unit = key]
       IN  Begin(IF cache # {} /\ cacheFresh
                 THEN GuardOutcome(r, "cache", CHOOSE c \in cache : TRUE)
                 ELSE [r EXCEPT !.pc = "select"])
  /\ UNCHANGED <<feeVars, extVars, storeVars>>

\* SELECT key, value FROM platform_settings, laid over DEFAULTS.
GetSettingsSelect(s) ==
  /\ At(s, "guard", "select")
  /\ req' = [req EXCEPT ![s] = [@ EXCEPT !.pc = "store", !.rows = settings]]
  /\ UNCHANGED <<feeVars, extVars, storeVars, answered>>

\* The SELECT fails and getSettings() throws into the guard's catch.
GetSettingsThrows(s) ==
  /\ At(s, "guard", "select")
  /\ req' = [req EXCEPT ![s] = GuardOutcome(@, "error", DEFAULTS)]
  /\ UNCHANGED <<feeVars, extVars, storeVars, answered>>

\* getSettings() resumes with its rows: _cache = settings, _cacheExpiry =
\* now + CACHE_TTL, and the guard decides on what it returns.
GetSettingsStore(s) ==
  /\ At(s, "guard", "store")
  /\ cache' = {req[s].rows}
  /\ cacheFresh' = TRUE
  /\ req' = [req EXCEPT ![s] = GuardOutcome(@, "rows", @.rows)]
  /\ UNCHANGED <<feeVars, timeVars, cronVars, settings, payVars, storeVars,
                 answered>>

\* The clock passes _cacheExpiry.
CacheExpires ==
  /\ cacheFresh
  /\ cacheFresh' = FALSE
  /\ UNCHANGED <<feeVars, timeVars, cronVars, settings, cache, payVars,
                 storeVars, reqVars>>

\* POST /admin/settings { key, value }: 400 for a key that is not allowed.
AdminSettingsStart ==
  /\ \E key \in SettingKeys \cup {"other"}, value \in BOOLEAN :
       LET r == [Idle EXCEPT !.kind = "set_setting", !.unit = key,
                             !.cred = IF value THEN "true" ELSE "false"]
       IN  Begin(IF key \notin SettingKeys
                 THEN Respond(r, "400_invalid_key")
                 ELSE [r EXCEPT !.pc = "upsert"])
  /\ UNCHANGED <<feeVars, extVars, storeVars>>

\* setSetting(): INSERT INTO platform_settings ... ON CONFLICT (key) DO
\* UPDATE SET value = $2
SetSettingUpsert(s) ==
  /\ At(s, "set_setting", "upsert")
  /\ SetSetting(req[s].unit, req[s].cred = "true")
  /\ req' = [req EXCEPT ![s].pc = "invalidate"]
  /\ UNCHANGED <<feeVars, timeVars, cronVars, cache, cacheFresh, payVars,
                 storeVars, answered>>

\* setSetting() resumes after its query: invalidateCache(), and the 200.
SetSettingInvalidate(s) ==
  /\ At(s, "set_setting", "invalidate")
  /\ InvalidateCache
  /\ req' = [req EXCEPT ![s] = Respond(@, "200_ok")]
  /\ UNCHANGED <<feeVars, timeVars, cronVars, settings, payVars, storeVars,
                 answered>>

\* ------------------------------------------------------ scheduled jobs
\* hoursSince(ts) >= h, on the clock's minutes.
HoursSinceAtLeast(ts, h) == now - ts >= h * Hour

\* The invoice numbers in ascending order, as ORDER BY lists them.
InvoiceOrder == <<"F", "M">>

\* The members of a set of invoice numbers, in that order.
Ordered(S) == SelectSeq(InvoiceOrder, LAMBDA i : i \in S)

\* The job's query: the pending invoices that have a guests row older than
\* 23 hours and are not past their expiry.
ReminderRows ==
  Ordered({i \in Invoices :
             /\ guests[i] # "none"
             /\ invStatus[i] = "pending"
             /\ GuestsCreatedAt(i) < now - 23 * Hour
             /\ (ExpiresAt(i) = NoTime \/ ExpiresAt(i) > now)})

\* The reminder levels due for a payment attempt made at attempt_at.
ReminderLevels(attempt_at) ==
  SelectSeq(<<1, 2, 3>>,
            LAMBDA l : HoursSinceAtLeast(attempt_at, 24 * l))

\* The loops' next position: the next level of the row at hand, else the
\* first level due of the next row that has one, else the end of the run.
RECURSIVE NextReminder(_)
NextReminder(r) ==
  IF r.levels # <<>>
  THEN [r EXCEPT !.pc = "claim", !.level = Head(r.levels),
                 !.levels = Tail(r.levels)]
  ELSE IF r.rows # <<>>
  THEN NextReminder([r EXCEPT !.unit = Head(r.rows), !.rows = Tail(r.rows),
                       !.levels = ReminderLevels(GuestsCreatedAt(Head(r.rows)))])
  ELSE Respond(r, "checked")

\* runInvoiceReminders, the query and the first row's levels.
RunInvoiceReminders ==
  /\ Begin(NextReminder([Idle EXCEPT !.kind = "reminders",
                                     !.rows = ReminderRows]))
  /\ UNCHANGED <<feeVars, extVars, storeVars>>

\* The claim without the table's UNIQUE (invoicenumber, reminder_level).
ReminderClaimedAlways(invoicenumber, level) == TRUE

\* INSERT INTO invoice_reminders ... ON CONFLICT (invoicenumber,
\* reminder_level) DO NOTHING RETURNING id: whether a row came back.
ReminderClaimed(invoicenumber, level) ==
  ~ \E row \in reminders : /\ row.invoicenumber = invoicenumber
                           /\ row.reminder_level = level

\* The atomic claim: the worker that gets the row sends; one that gets
\* none, or whose insert throws, goes on to the next level.
ReminderClaim(s) ==
  /\ At(s, "reminders", "claim")
  /\ \/ /\ ReminderClaimed(req[s].unit, req[s].level)
        /\ reminders' = reminders \cup
             {[invoicenumber |-> req[s].unit, reminder_level |-> req[s].level,
               id |-> s]}
        /\ req' = [req EXCEPT ![s].pc = "send"]
     \/ /\ reminders' = reminders
        /\ req' = [req EXCEPT ![s] = NextReminder(@)]
  /\ UNCHANGED <<feeVars, payVars, timeVars, escalations, settingsVars, storeVars,
                 answered>>

\* sgMail.send of the reminder: handed over, or failed.
ReminderSend(s) ==
  /\ At(s, "reminders", "send")
  /\ \/ /\ mails' = mails \cup
             {[req |-> s, ref |-> req[s].unit, type |-> "reminder",
               to |-> "buyer", level |-> req[s].level]}
        /\ req' = [req EXCEPT ![s] = NextReminder(@)]
     \/ /\ mails' = mails
        /\ req' = [req EXCEPT ![s].pc = "delete"]
  /\ UNCHANGED <<feeVars, extVars, invVars, credVars, guests, refVars,
                 ledgerVars, msVars, dispStatus, processed, chats, answered>>

\* After a failed send: DELETE FROM invoice_reminders WHERE invoicenumber =
\* $1 AND reminder_level = $2, whose own failure is ignored.
ReminderDelete(s) ==
  /\ At(s, "reminders", "delete")
  /\ \/ reminders' = {row \in reminders :
                        ~ (/\ row.invoicenumber = req[s].unit
                           /\ row.reminder_level = req[s].level)}
     \/ reminders' = reminders
  /\ req' = [req EXCEPT ![s] = NextReminder(@)]
  /\ UNCHANGED <<feeVars, payVars, timeVars, escalations, settingsVars, storeVars,
                 answered>>

InvoiceReminders(s) ==
  \/ ReminderClaim(s)
  \/ ReminderSend(s)
  \/ ReminderDelete(s)

\* A run of the reminder job has returned; the schedule starts the next one
\* in its place.
ReminderRunReturns(s) ==
  /\ At(s, "reminders", "done")
  /\ req' = [req EXCEPT ![s] = Idle]
  /\ UNCHANGED <<feeVars, extVars, storeVars, answered>>

\* The reminder's send when the mailer takes the mail.
ReminderSendSucceeds(s) == ReminderSend(s) /\ req'[s].pc # "delete"

\* The claim's insert when it returns its row, and the cleanup's DELETE when
\* it removes the row.
ReminderClaimSucceeds(s) == ReminderClaim(s) /\ req'[s].pc = "send"
ReminderDeleteSucceeds(s) == ReminderDelete(s) /\ reminders' # reminders

\* The job's query: the disputes that are still open.
EscalationRows == Ordered({i \in Invoices : dispStatus[i] = "open"})

\* The escalation levels whose block the loop enters for a dispute opened
\* at created_at: level 1 from 72 hours, level 2 from 168 hours.
EscalationLevels(created_at) ==
  SelectSeq(<<1, 2>>,
            LAMBDA l : HoursSinceAtLeast(created_at,
                                         IF l = 1 THEN 72 ELSE 168))

\* The loop's next position: the next level of the dispute at hand, else
\* the first level due of the next dispute that has one, else the end.
RECURSIVE NextEscalation(_)
NextEscalation(r) ==
  IF r.levels # <<>>
  THEN [r EXCEPT !.pc = "already", !.level = Head(r.levels),
                 !.levels = Tail(r.levels)]
  ELSE IF r.rows # <<>>
  THEN NextEscalation([r EXCEPT !.unit = Head(r.rows), !.rows = Tail(r.rows),
                         !.levels = EscalationLevels(dispCreatedAt[Head(r.rows)])])
  ELSE Respond(r, "checked")

\* runDisputeEscalation, the query and the first dispute's levels.
RunDisputeEscalation ==
  /\ Begin(NextEscalation([Idle EXCEPT !.kind = "escalation",
                                       !.rows = EscalationRows]))
  /\ UNCHANGED <<feeVars, extVars, storeVars>>

\* SELECT 1 FROM dispute_escalations WHERE invoicenumber = $1 AND level =
\* $2: whether a row came back.
EscalationAlready(invoicenumber, level) ==
  \E row \in escalations : /\ row.invoicenumber = invoicenumber
                           /\ row.level = level

\* The look-up: with a row the level is skipped, without one the alert is
\* sent next.
EscalationCheck(s) ==
  /\ At(s, "escalation", "already")
  /\ req' = [req EXCEPT ![s] =
               IF EscalationAlready(@.unit, @.level)
               THEN NextEscalation(@) ELSE [@ EXCEPT !.pc = "send"]]
  /\ UNCHANGED <<feeVars, extVars, storeVars, answered>>

\* sgMail.send of the admin alert: handed over, or failed and logged.
EscalationSend(s) ==
  /\ At(s, "escalation", "send")
  /\ \/ /\ mails' = mails \cup
             {[req |-> s, ref |-> req[s].unit, type |-> "escalation",
               to |-> "admin", level |-> req[s].level]}
        /\ req' = [req EXCEPT ![s].pc = "insert"]
     \/ /\ mails' = mails
        /\ req' = [req EXCEPT ![s] = NextEscalation(@)]
  /\ UNCHANGED <<feeVars, extVars, invVars, credVars, guests, refVars,
                 ledgerVars, msVars, dispStatus, processed, chats, answered>>

\* After the send: INSERT INTO dispute_escalations (invoicenumber, level)
\* ... ON CONFLICT DO NOTHING, whose failure is caught and logged.
EscalationInsert(s) ==
  /\ At(s, "escalation", "insert")
  /\ \/ escalations' = escalations \cup
          {[invoicenumber |-> req[s].unit, level |-> req[s].level]}
     \/ escalations' = escalations
  /\ req' = [req EXCEPT ![s] = NextEscalation(@)]
  /\ UNCHANGED <<feeVars, payVars, timeVars, reminders, settingsVars, storeVars,
                 answered>>

DisputeEscalation(s) ==
  \/ EscalationCheck(s)
  \/ EscalationSend(s)
  \/ EscalationInsert(s)
\* ----------------------------------------------------- the fee-split check
\* The amounts the four seller-payout paths and the refund path are run on.
FeeGrossValues == (0 .. MaxGross) \cup {50000, 100000}

\* Each path computes its split of the same gross amount.
ComputeSplits ==
  /\ feeOut = {}
  /\ feeOut' = {[code |-> PayoutSplit(feeGross, feeHasRef),
                 link |-> PayoutLinkSplit(feeGross, feeHasRef),
                 milestone |-> MilestoneSplit(feeGross, feeHasRef),
                 dispute |-> DisputeSellerSplit(feeGross, feeHasRef),
                 refund |-> DisputeBuyerRefund(feeGross)]}
  /\ UNCHANGED <<feeGross, feeHasRef, extVars, storeVars, reqVars>>

\* ------------------------------------------------------- specifications
\* The fee split alone: an amount and a referral case are drawn, the store
\* stays empty.
FeeInit ==
  /\ payInvoice = [p \in Refs |-> IF p = "pF" THEN "F" ELSE "M"]
  /\ feeGross \in FeeGrossValues
  /\ feeHasRef \in BOOLEAN
  /\ feeOut = {}
  /\ invStatus = [i \in Invoices |-> "pending"]
  /\ invAmount = [i \in Invoices |-> 1000]
  /\ payStatus = [p \in Refs |-> "none"]
  /\ cred = [c \in Refs |-> "none"]
  /\ guests = [i \in Invoices |-> "none"]
  /\ referredBy = NULL
  /\ earnings = {}
  /\ refBalance = 0
  /\ refWithdrawals = {}
  /\ payouts = {}
  /\ withdraws = {}
  /\ msStatus = [m \in Milestones |-> "pending"]
  /\ msToken = [m \in Milestones |-> NoToken]
  /\ dispStatus = [i \in Invoices |-> "none"]
  /\ processed = {}
  /\ chats = {}
  /\ mails = {}
  /\ now = 0
  /\ deliveredAt = [i \in Invoices |-> NoTime]
  /\ dispCreatedAt = [i \in Invoices |-> IF dispStatus[i] = "none" THEN NoTime ELSE 0]
  /\ reminders = {}
  /\ escalations = {}
  /\ settings = DEFAULTS
  /\ cache = {}
  /\ cacheFresh = FALSE
  /\ req = [s \in 1 .. MaxReq |-> Idle]
  /\ answered = Idle
  /\ payAmount = [p \in Refs |-> invAmount[payInvoice[p]]]

FeeNext == ComputeSplits

SpecFee == FeeInit /\ [][FeeNext]_vars

\* Settlement by code and by e-mail link.  Invoice F is paid and holds the
\* confirmation_codes row its payment's processing minted; invoice M is
\* still pending.  Nothing is settled yet.
CodeInit ==
  /\ payInvoice = [p \in Refs |-> IF p = "pF" THEN "F" ELSE "M"]
  /\ feeGross = 0
  /\ feeHasRef = FALSE
  /\ feeOut = {}
  /\ invStatus = [i \in Invoices |-> IF i = "F" THEN "paid" ELSE "pending"]
  /\ invAmount \in [Invoices -> {150, 1000}]
  /\ invAmount["M"] = 1000
  /\ payStatus = [p \in Refs |-> IF p = "pF" THEN "paid" ELSE "none"]
  /\ cred = [c \in Refs |-> IF c = "pF" THEN "unused" ELSE "none"]
  /\ guests = [i \in Invoices |-> IF i = "F" THEN "momo" ELSE "none"]
  /\ referredBy \in {NULL, Referrer}
  /\ earnings = {}
  /\ refBalance = 0
  /\ refWithdrawals = {}
  /\ payouts = {}
  /\ withdraws = {}
  /\ msStatus = [m \in Milestones |-> "pending"]
  /\ msToken = [m \in Milestones |-> NoToken]
  /\ dispStatus = [i \in Invoices |-> "none"]
  /\ processed = {"pF"}
  /\ chats = {"F"}
  /\ mails = {}
  /\ now = 0
  /\ deliveredAt = [i \in Invoices |-> NoTime]
  /\ dispCreatedAt = [i \in Invoices |-> IF dispStatus[i] = "none" THEN NoTime ELSE 0]
  /\ reminders = {}
  /\ escalations = {}
  /\ settings = DEFAULTS
  /\ cache = {}
  /\ cacheFresh = FALSE
  /\ req = [s \in 1 .. MaxReq |-> Idle]
  /\ answered = Idle
  /\ payAmount = [p \in Refs |-> invAmount[payInvoice[p]]]

CodeNext ==
  \/ ReleaseFunds
  \/ VerifyPayoutGet
  \/ VerifyPayoutPost
  \/ \E s \in Slots : ExecutePayout(s) \/ ExecutePayoutLink(s)

SpecCode == CodeInit /\ [][CodeNext]_vars

\* The milestone routes.  The buyer has paid invoice M, whose two
\* milestones are pending; the seller has a referrer.
MsInit ==
  /\ payInvoice = [p \in Refs |-> IF p = "pF" THEN "F" ELSE "M"]
  /\ feeGross = 0
  /\ feeHasRef = FALSE
  /\ feeOut = {}
  /\ invStatus = [i \in Invoices |-> IF i = "M" THEN "paid" ELSE "pending"]
  /\ invAmount = [i \in Invoices |-> 1000]
  /\ payStatus = [p \in Refs |-> IF p = "pM" THEN "paid" ELSE "none"]
  /\ cred = [c \in Refs |-> IF c = "pM" THEN "unused" ELSE "none"]
  /\ guests = [i \in Invoices |-> IF i = "M" THEN "momo" ELSE "none"]
  /\ referredBy = Referrer
  /\ earnings = {}
  /\ refBalance = 0
  /\ refWithdrawals = {}
  /\ payouts = {}
  /\ withdraws = {}
  /\ msStatus = [m \in Milestones |-> "pending"]
  /\ msToken = [m \in Milestones |-> NoToken]
  /\ dispStatus = [i \in Invoices |-> "none"]
  /\ processed = {"pM"}
  /\ chats = {"M"}
  /\ mails = {}
  /\ now = 0
  /\ deliveredAt = [i \in Invoices |-> NoTime]
  /\ dispCreatedAt = [i \in Invoices |-> IF dispStatus[i] = "none" THEN NoTime ELSE 0]
  /\ reminders = {}
  /\ escalations = {}
  /\ settings = DEFAULTS
  /\ cache = {}
  /\ cacheFresh = FALSE
  /\ req = [s \in 1 .. MaxMsReq |-> Idle]
  /\ answered = Idle
  /\ payAmount = [p \in Refs |-> invAmount[payInvoice[p]]]

MsNext ==
  \/ MilestoneCompleteStart
  \/ ReleaseMilestoneGet
  \/ ReleaseMilestoneStart
  \/ \E s \in Slots : MilestoneCompleteUpdate(s) \/ ReleaseMilestone(s)

SpecMs == MsInit /\ [][MsNext]_vars

\* Dispute resolution.  Invoice F is paid and has an open dispute; nothing
\* is settled yet.  The buyer's guests row may lack the payment number.
DisputeInit ==
  /\ payInvoice = [p \in Refs |-> IF p = "pF" THEN "F" ELSE "M"]
  /\ feeGross = 0
  /\ feeHasRef = FALSE
  /\ feeOut = {}
  /\ invStatus = [i \in Invoices |-> IF i = "F" THEN "paid" ELSE "pending"]
  /\ invAmount \in [Invoices -> {150, 100000}]
  /\ invAmount["M"] = 150
  /\ payStatus = [p \in Refs |-> IF p = "pF" THEN "paid" ELSE "none"]
  /\ cred = [c \in Refs |-> IF c = "pF" THEN "unused" ELSE "none"]
  /\ guests \in [Invoices -> {"none", "no_momo", "momo"}]
  /\ guests["F"] # "none"
  /\ guests["M"] = "none"
  /\ referredBy \in {NULL, Referrer}
  /\ earnings = {}
  /\ refBalance = 0
  /\ refWithdrawals = {}
  /\ payouts = {}
  /\ withdraws = {}
  /\ msStatus = [m \in Milestones |-> "pending"]
  /\ msToken = [m \in Milestones |-> NoToken]
  /\ dispStatus = [i \in Invoices |-> IF i = "F" THEN "open" ELSE "none"]
  /\ processed = {"pF"}
  /\ chats = {"F"}
  /\ mails = {}
  /\ now = 0
  /\ deliveredAt = [i \in Invoices |-> NoTime]
  /\ dispCreatedAt = [i \in Invoices |-> IF dispStatus[i] = "none" THEN NoTime ELSE 0]
  /\ reminders = {}
  /\ escalations = {}
  /\ settings = DEFAULTS
  /\ cache = {}
  /\ cacheFresh = FALSE
  /\ req = [s \in 1 .. MaxReq |-> Idle]
  /\ answered = Idle
  /\ payAmount = [p \in Refs |-> invAmount[payInvoice[p]]]

DisputeNext ==
  \/ ResolveStart
  \/ \E s \in Slots : ResolveSeller(s) \/ ResolveBuyer(s)

SpecDispute == DisputeInit /\ [][DisputeNext]_vars

\* Payment processing.  The buyer of invoice F has been charged: the
\* payments row of reference pF is pending, the guests row was saved or its
\* insert failed.  Reference pM either has no payments row, or was processed
\* before the processed_payments table existed.
PayInit ==
  /\ payInvoice = [p \in Refs |-> IF p = "pF" THEN "F" ELSE "M"]
  /\ feeGross = 0
  /\ feeHasRef = FALSE
  /\ feeOut = {}
  /\ payStatus \in [Refs -> {"none", "pending", "paid"}]
  /\ payStatus["pF"] = "pending"
  /\ payStatus["pM"] \in {"none", "paid"}
  /\ invStatus = [i \in Invoices |->
                    IF payStatus[CHOOSE p \in Refs : RefInvoice(p) = i] = "paid"
                    THEN "paid" ELSE "pending"]
  /\ invAmount = [i \in Invoices |-> 1000]
  /\ cred = [c \in Refs |-> IF payStatus[c] = "paid" THEN "unused" ELSE "none"]
  /\ guests \in [Invoices -> {"none", "momo"}]
  /\ guests["M"] = "momo"
  /\ referredBy = NULL
  /\ earnings = {}
  /\ refBalance = 0
  /\ refWithdrawals = {}
  /\ payouts = {}
  /\ withdraws = {}
  /\ msStatus = [m \in Milestones |-> "pending"]
  /\ msToken = [m \in Milestones |-> NoToken]
  /\ dispStatus = [i \in Invoices |-> "none"]
  /\ processed = {}
  /\ chats = {i \in Invoices : invStatus[i] = "paid"}
  /\ mails = {}
  /\ now = 0
  /\ deliveredAt = [i \in Invoices |-> NoTime]
  /\ dispCreatedAt = [i \in Invoices |-> IF dispStatus[i] = "none" THEN NoTime ELSE 0]
  /\ reminders = {}
  /\ escalations = {}
  /\ settings = DEFAULTS
  /\ cache = {}
  /\ cacheFresh = FALSE
  /\ req = [s \in 1 .. MaxReq |-> Idle]
  /\ answered = Idle
  /\ payAmount = [p \in Refs |-> invAmount[payInvoice[p]]]

PayNext ==
  \/ Webhook
  \/ Poll
  \/ \E s \in Slots : ProcessSuccessfulPayment(s, "webhook")
                        \/ ProcessSuccessfulPayment(s, "poll")

SpecPay == PayInit /\ [][PayNext]_vars

\* The confirmation pages next to the routes they lead to.  Invoices F and
\* M are paid and hold their confirmation_codes rows; M's milestones are
\* pending.
GetInit ==
  /\ payInvoice = [p \in Refs |-> IF p = "pF" THEN "F" ELSE "M"]
  /\ feeGross = 0
  /\ feeHasRef = FALSE
  /\ feeOut = {}
  /\ invStatus = [i \in Invoices |-> "paid"]
  /\ invAmount = [i \in Invoices |-> 1000]
  /\ payStatus = [p \in Refs |-> "paid"]
  /\ cred = [c \in Refs |-> "unused"]
  /\ guests = [i \in Invoices |-> "momo"]
  /\ referredBy = Referrer
  /\ earnings = {}
  /\ refBalance = 0
  /\ refWithdrawals = {}
  /\ payouts = {}
  /\ withdraws = {}
  /\ msStatus = [m \in Milestones |-> "pending"]
  /\ msToken = [m \in Milestones |-> NoToken]
  /\ dispStatus = [i \in Invoices |-> "none"]
  /\ processed = Refs
  /\ chats = Invoices
  /\ mails = {}
  /\ now = 0
  /\ deliveredAt = [i \in Invoices |-> NoTime]
  /\ dispCreatedAt = [i \in Invoices |-> IF dispStatus[i] = "none" THEN NoTime ELSE 0]
  /\ reminders = {}
  /\ escalations = {}
  /\ settings = DEFAULTS
  /\ cache = {}
  /\ cacheFresh = FALSE
  /\ req = [s \in 1 .. MaxReq |-> Idle]
  /\ answered = Idle
  /\ payAmount = [p \in Refs |-> invAmount[payInvoice[p]]]

GetNext ==
  \/ VerifyPayoutGet
  \/ VerifyPayoutPost
  \/ ReleaseMilestoneGet
  \/ ReleaseMilestoneStart
  \/ MilestoneCompleteStart
  \/ \E s \in Slots : \/ ExecutePayoutLink(s)
                      \/ MilestoneCompleteUpdate(s)
                      \/ ReleaseMilestone(s)

SpecGet == GetInit /\ [][GetNext]_vars


\* An invoice's life.  Invoice F is either still pending, its buyer
\* charged, before or after the invoice's expiry; or paid, its confirmation
\* row minted, with or without an open dispute.  Invoice M is untouched.
LifeInit ==
  /\ payInvoice = [p \in Refs |-> IF p = "pF" THEN "F" ELSE "M"]
  /\ feeGross = 0
  /\ feeHasRef = FALSE
  /\ feeOut = {}
  /\ invStatus \in [Invoices -> {"pending", "paid"}]
  /\ invStatus["M"] = "pending"
  /\ invAmount = [i \in Invoices |-> 1000]
  /\ payStatus = [p \in Refs |-> IF p = "pF" THEN invStatus["F"] ELSE "none"]
  /\ cred = [c \in Refs |-> IF payStatus[c] = "paid" THEN "unused" ELSE "none"]
  /\ guests = [i \in Invoices |-> IF i = "F" THEN "momo" ELSE "none"]
  /\ referredBy = Referrer
  /\ earnings = {}
  /\ refBalance = 0
  /\ refWithdrawals = {}
  /\ payouts = {}
  /\ withdraws = {}
  /\ msStatus = [m \in Milestones |-> "pending"]
  /\ msToken = [m \in Milestones |-> NoToken]
  /\ dispStatus \in [Invoices -> {"none", "open"}]
  /\ dispStatus["M"] = "none"
  /\ invStatus["F"] = "pending" => dispStatus["F"] = "none"
  /\ processed = {p \in Refs : payStatus[p] = "paid"}
  /\ chats = {i \in Invoices : invStatus[i] = "paid"}
  /\ mails = {}
  /\ now \in {0, 60 * Hour}
  /\ invStatus["F"] = "paid" => now = 0
  /\ deliveredAt = [i \in Invoices |-> NoTime]
  /\ dispCreatedAt = [i \in Invoices |->
                        IF dispStatus[i] = "none" THEN NoTime ELSE 0]
  /\ reminders = {}
  /\ escalations = {}
  /\ settings = DEFAULTS
  /\ cache = {}
  /\ cacheFresh = FALSE
  /\ req = [s \in 1 .. MaxReq |-> Idle]
  /\ answered = Idle
  /\ payAmount = [p \in Refs |-> invAmount[payInvoice[p]]]

LifeNext ==
  \/ Webhook
  \/ LinkStart
  \/ MarkDeliveredStart
  \/ OpenDisputeStart
  \/ ReleaseFunds
  \/ VerifyPayoutPost
  \/ ResolveStart
  \/ \E s \in Slots : \/ ProcessSuccessfulPayment(s, "webhook")
                      \/ LinkExpire(s)
                      \/ MarkDelivered(s)
                      \/ OpenDispute(s)
                      \/ ExecutePayout(s)
                      \/ ExecutePayoutLink(s)
                      \/ ResolveSeller(s)
                      \/ ResolveBuyer(s)

SpecLife == LifeInit /\ [][LifeNext]_vars

\* The instants the dispute-opening routes are called at.
OpenInstants == {0, 48 * Hour - 1, 48 * Hour, 49 * Hour}

\* Opening a dispute.  Invoice F is paid, or was marked delivered at the
\* start; it has no dispute.  Invoice M is still pending.
OpenInit ==
  /\ payInvoice = [p \in Refs |-> IF p = "pF" THEN "F" ELSE "M"]
  /\ feeGross = 0
  /\ feeHasRef = FALSE
  /\ feeOut = {}
  /\ invStatus \in [Invoices -> {"pending", "paid", "delivered"}]
  /\ invStatus["F"] # "pending"
  /\ invStatus["M"] = "pending"
  /\ invAmount = [i \in Invoices |-> 1000]
  /\ payStatus = [p \in Refs |-> IF p = "pF" THEN "paid" ELSE "none"]
  /\ cred = [c \in Refs |-> IF c = "pF" THEN "unused" ELSE "none"]
  /\ guests = [i \in Invoices |-> IF i = "F" THEN "momo" ELSE "none"]
  /\ referredBy = NULL
  /\ earnings = {}
  /\ refBalance = 0
  /\ refWithdrawals = {}
  /\ payouts = {}
  /\ withdraws = {}
  /\ msStatus = [m \in Milestones |-> "pending"]
  /\ msToken = [m \in Milestones |-> NoToken]
  /\ dispStatus = [i \in Invoices |-> "none"]
  /\ processed = {"pF"}
  /\ chats = {"F"}
  /\ mails = {}
  /\ now = 0
  /\ deliveredAt = [i \in Invoices |->
                      IF invStatus[i] = "delivered" THEN 0 ELSE NoTime]
  /\ dispCreatedAt = [i \in Invoices |-> NoTime]
  /\ reminders = {}
  /\ escalations = {}
  /\ settings = DEFAULTS
  /\ cache = {}
  /\ cacheFresh = FALSE
  /\ req = [s \in 1 .. MaxReq |-> Idle]
  /\ answered = Idle
  /\ payAmount = [p \in Refs |-> invAmount[payInvoice[p]]]

OpenNext ==
  \/ Tick(OpenInstants)
  \/ MarkDeliveredStart
  \/ OpenDisputeStart
  \/ \E s \in Slots : MarkDelivered(s) \/ OpenDispute(s)

SpecOpen == OpenInit /\ [][OpenNext]_vars

\* The instants the reminder job is run at.
ReminderInstants == {0, 23 * Hour + 30, 24 * Hour, 48 * Hour, 72 * Hour}

\* The reminder job.  Invoices F and M are pending; the buyer of one of
\* them was charged at the start and has not paid.
RemindInit ==
  /\ payInvoice = [p \in Refs |-> IF p = "pF" THEN "F" ELSE "M"]
  /\ feeGross = 0
  /\ feeHasRef = FALSE
  /\ feeOut = {}
  /\ invStatus = [i \in Invoices |-> "pending"]
  /\ invAmount = [i \in Invoices |-> 1000]
  /\ cred = [c \in Refs |-> "none"]
  /\ guests \in [Invoices -> {"none", "momo"}]
  /\ Cardinality({i \in Invoices : guests[i] = "momo"}) = 1
  /\ payStatus = [p \in Refs |-> IF guests[RefInvoice(p)] = "momo"
                                 THEN "pending" ELSE "none"]
  /\ referredBy = NULL
  /\ earnings = {}
  /\ refBalance = 0
  /\ refWithdrawals = {}
  /\ payouts = {}
  /\ withdraws = {}
  /\ msStatus = [m \in Milestones |-> "pending"]
  /\ msToken = [m \in Milestones |-> NoToken]
  /\ dispStatus = [i \in Invoices |-> "none"]
  /\ processed = {}
  /\ chats = {}
  /\ mails = {}
  /\ now = 0
  /\ deliveredAt = [i \in Invoices |-> NoTime]
  /\ dispCreatedAt = [i \in Invoices |-> NoTime]
  /\ reminders = {}
  /\ escalations = {}
  /\ settings = DEFAULTS
  /\ cache = {}
  /\ cacheFresh = FALSE
  /\ req = [s \in 1 .. MaxReq |-> Idle]
  /\ answered = Idle
  /\ payAmount = [p \in Refs |-> invAmount[payInvoice[p]]]

RemindNext ==
  \/ Tick(ReminderInstants)
  \/ RunInvoiceReminders
  \/ \E s \in Slots : InvoiceReminders(s)

SpecRemind == RemindInit /\ [][RemindNext]_vars

\* ------------------------------------------------- the escalation job
\* The instants of the job's runs: the dispute's opening, just before and
\* at 72 hours, and at 7 days.
EscalationInstants == {0, 72 * Hour - 1, 72 * Hour, 168 * Hour}

\* Paid invoices, one or both with a dispute opened at the start.
EscalateInit ==
  /\ payInvoice = [p \in Refs |-> IF p = "pF" THEN "F" ELSE "M"]
  /\ feeGross = 0
  /\ feeHasRef = FALSE
  /\ feeOut = {}
  /\ invStatus = [i \in Invoices |-> "paid"]
  /\ invAmount = [i \in Invoices |-> 1000]
  /\ cred = [c \in Refs |-> "unused"]
  /\ guests = [i \in Invoices |-> "momo"]
  /\ payStatus = [p \in Refs |-> "paid"]
  /\ referredBy = NULL
  /\ earnings = {}
  /\ refBalance = 0
  /\ refWithdrawals = {}
  /\ payouts = {}
  /\ withdraws = {}
  /\ msStatus = [m \in Milestones |-> "pending"]
  /\ msToken = [m \in Milestones |-> NoToken]
  /\ dispStatus \in [Invoices -> {"none", "open"}]
  /\ dispStatus["F"] = "open"
  /\ processed = {}
  /\ chats = {}
  /\ mails = {}
  /\ now = 0
  /\ deliveredAt = [i \in Invoices |-> NoTime]
  /\ dispCreatedAt = [i \in Invoices |->
                        IF dispStatus[i] = "none" THEN NoTime ELSE 0]
  /\ reminders = {}
  /\ escalations = {}
  /\ settings = DEFAULTS
  /\ cache = {}
  /\ cacheFresh = FALSE
  /\ req = [s \in 1 .. MaxReq |-> Idle]
  /\ answered = Idle
  /\ payAmount = [p \in Refs |-> invAmount[payInvoice[p]]]

EscalateNext ==
  \/ Tick(EscalationInstants)
  \/ RunDisputeEscalation
  \/ \E s \in Slots : DisputeEscalation(s)

SpecEscalate == EscalateInit /\ [][EscalateNext]_vars

\* ------------------------------------------------- the payouts switch
\* Invoice F paid, its code minted and its link mailed; the milestone
\* invoice M with a payment attempt under way; the platform settings at
\* their defaults.
GuardInit ==
  /\ payInvoice = [p \in Refs |-> IF p = "pF" THEN "F" ELSE "M"]
  /\ feeGross = 0
  /\ feeHasRef = FALSE
  /\ feeOut = {}
  /\ invStatus = [i \in Invoices |-> IF i = "F" THEN "paid" ELSE "pending"]
  /\ invAmount = [i \in Invoices |-> 1000]
  /\ payStatus = [p \in Refs |-> IF p = "pF" THEN "paid" ELSE "pending"]
  /\ cred = [c \in Refs |-> IF c = "pF" THEN "unused" ELSE "none"]
  /\ guests = [i \in Invoices |-> "momo"]
  /\ referredBy = Referrer
  /\ earnings = {}
  /\ refBalance = 0
  /\ refWithdrawals = {}
  /\ payouts = {}
  /\ withdraws = {}
  /\ msStatus = [m \in Milestones |-> "pending"]
  /\ msToken = [m \in Milestones |-> NoToken]
  /\ dispStatus = [i \in Invoices |-> "none"]
  /\ processed = {"pF"}
  /\ chats = {"F"}
  /\ mails = {}
  /\ now = 0
  /\ deliveredAt = [i \in Invoices |-> NoTime]
  /\ dispCreatedAt = [i \in Invoices |-> NoTime]
  /\ reminders = {}
  /\ escalations = {}
  /\ settings = DEFAULTS
  /\ cache = {}
  /\ cacheFresh = FALSE
  /\ req = [s \in 1 .. MaxReq |-> Idle]
  /\ answered = Idle
  /\ payAmount = [p \in Refs |-> invAmount[payInvoice[p]]]

GuardNext ==
  \/ AdminSettings
  \/ ReleaseFunds
  \/ VerifyPayoutPost
  \/ ReleaseMilestoneGet
  \/ ReleaseMilestoneStart
  \/ MilestoneCompleteStart
  \/ \E s \in Slots : \/ ExecutePayout(s)
                      \/ ExecutePayoutLink(s)
                      \/ MilestoneCompleteUpdate(s)
                      \/ ReleaseMilestone(s)

SpecGuard == GuardInit /\ [][GuardNext]_vars

\* ------------------------------------------------ the payment attempts
\* Two invoices published and unpaid, no payment attempted yet: the
\* references are still to be drawn.
AttemptInit ==
  /\ payInvoice = [p \in Refs |-> IF p = "pF" THEN "F" ELSE "M"]
  /\ feeGross = 0
  /\ feeHasRef = FALSE
  /\ feeOut = {}
  /\ invStatus = [i \in Invoices |-> "pending"]
  /\ invAmount = [i \in Invoices |-> 1000]
  /\ payStatus = [p \in Refs |-> "none"]
  /\ cred = [c \in Refs |-> "none"]
  /\ guests = [i \in Invoices |-> "none"]
  /\ referredBy = NULL
  /\ earnings = {}
  /\ refBalance = 0
  /\ refWithdrawals = {}
  /\ payouts = {}
  /\ withdraws = {}
  /\ msStatus = [m \in Milestones |-> "pending"]
  /\ msToken = [m \in Milestones |-> NoToken]
  /\ dispStatus = [i \in Invoices |-> "none"]
  /\ processed = {}
  /\ chats = {}
  /\ mails = {}
  /\ now = 0
  /\ deliveredAt = [i \in Invoices |-> NoTime]
  /\ dispCreatedAt = [i \in Invoices |-> NoTime]
  /\ reminders = {}
  /\ escalations = {}
  /\ settings = DEFAULTS
  /\ cache = {}
  /\ cacheFresh = FALSE
  /\ req = [s \in 1 .. MaxReq |-> Idle]
  /\ answered = Idle
  /\ payAmount = [p \in Refs |-> invAmount[payInvoice[p]]]

AttemptNext ==
  \/ RequestPayment
  \/ Webhook
  \/ \E s \in Slots : ProcessSuccessfulPayment(s, "webhook")

SpecAttempt == AttemptInit /\ [][AttemptNext]_vars

\* Invoice F paid at its amount and its code minted; invoice M unpaid, no
\* payment requested for it yet.  The invoices' amounts are open to edits
\* and the code path settles them.
AmountInit ==
  /\ payInvoice = [p \in Refs |-> IF p = "pF" THEN "F" ELSE "M"]
  /\ feeGross = 0
  /\ feeHasRef = FALSE
  /\ feeOut = {}
  /\ invStatus = [i \in Invoices |-> IF i = "F" THEN "paid" ELSE "pending"]
  /\ invAmount = [i \in Invoices |-> 1000]
  /\ payStatus = [p \in Refs |-> IF p = "pF" THEN "paid" ELSE "none"]
  /\ cred = [c \in Refs |-> IF c = "pF" THEN "unused" ELSE "none"]
  /\ guests = [i \in Invoices |-> IF i = "F" THEN "momo" ELSE "none"]
  /\ referredBy = NULL
  /\ earnings = {}
  /\ refBalance = 0
  /\ refWithdrawals = {}
  /\ payouts = {}
  /\ withdraws = {}
  /\ msStatus = [m \in Milestones |-> "pending"]
  /\ msToken = [m \in Milestones |-> NoToken]
  /\ dispStatus = [i \in Invoices |-> "none"]
  /\ processed = {"pF"}
  /\ chats = {"F"}
  /\ mails = {}
  /\ now = 0
  /\ deliveredAt = [i \in Invoices |-> NoTime]
  /\ dispCreatedAt = [i \in Invoices |-> NoTime]
  /\ reminders = {}
  /\ escalations = {}
  /\ settings = DEFAULTS
  /\ cache = {}
  /\ cacheFresh = FALSE
  /\ req = [s \in 1 .. MaxReq |-> Idle]
  /\ answered = Idle
  /\ payAmount = [p \in Refs |-> invAmount[payInvoice[p]]]

AmountNext ==
  \/ RequestPayment
  \/ EditInvoice
  \/ Webhook
  \/ ReleaseFunds
  \/ \E s \in Slots : \/ ProcessSuccessfulPayment(s, "webhook")
                      \/ ExecutePayout(s)

SpecAmount == AmountInit /\ [][AmountNext]_vars

\* The same start with the milestone routes.
UnpaidNext ==
  \/ RequestPayment
  \/ MilestoneCompleteStart
  \/ ReleaseMilestoneStart
  \/ \E s \in Slots : \/ MilestoneCompleteUpdate(s)
                      \/ ReleaseMilestone(s)

SpecUnpaid == AttemptInit /\ [][UnpaidNext]_vars

\* ------------------------------------------------- the last milestone
\* Installment invoice M paid; its first milestone was released by an
\* earlier request (0), whose transfer and payouts row are recorded; the
\* second is pending.
LastInit ==
  /\ payInvoice = [p \in Refs |-> IF p = "pF" THEN "F" ELSE "M"]
  /\ feeGross = 0
  /\ feeHasRef = FALSE
  /\ feeOut = {}
  /\ invStatus = [i \in Invoices |-> IF i = "M" THEN "paid" ELSE "pending"]
  /\ invAmount = [i \in Invoices |-> 1000]
  /\ payStatus = [p \in Refs |-> IF p = "pM" THEN "paid" ELSE "none"]
  /\ cred = [c \in Refs |-> IF c = "pM" THEN "unused" ELSE "none"]
  /\ guests = [i \in Invoices |-> IF i = "M" THEN "momo" ELSE "none"]
  /\ referredBy = NULL
  /\ earnings = {}
  /\ refBalance = 0
  /\ refWithdrawals = {}
  /\ withdraws = {[req |-> 0, reference |-> "m1", to |-> "seller",
                   amount |-> MilestoneSplit(MsAmount("m1"), FALSE).sellerReceives]}
  /\ payouts = {[req |-> 0, invoice |-> "M", method |-> "Mobile Money",
                 status |-> "paid",
                 amount |-> MilestoneSplit(MsAmount("m1"), FALSE).sellerReceives]}
  /\ msStatus = [m \in Milestones |-> IF m = "m1" THEN "released" ELSE "pending"]
  /\ msToken = [m \in Milestones |-> NoToken]
  /\ dispStatus = [i \in Invoices |-> "none"]
  /\ processed = {"pM"}
  /\ chats = {"M"}
  /\ mails = {}
  /\ now = 0
  /\ deliveredAt = [i \in Invoices |-> NoTime]
  /\ dispCreatedAt = [i \in Invoices |-> NoTime]
  /\ reminders = {}
  /\ escalations = {}
  /\ settings = DEFAULTS
  /\ cache = {}
  /\ cacheFresh = FALSE
  /\ req = [s \in 1 .. MaxMsReq |-> Idle]
  /\ answered = Idle
  /\ payAmount = [p \in Refs |-> invAmount[payInvoice[p]]]

LastNext ==
  \/ MilestoneCompleteStart
  \/ ReleaseMilestoneGet
  \/ ReleaseMilestoneStart
  \/ \E s \in Slots : MilestoneCompleteUpdate(s) \/ ReleaseMilestone(s)

SpecLast == LastInit /\ [][LastNext]_vars

\* The settlement's last steps with failures of the referral credit's
\* statements on top of those of the notification and the receipt: the code
\* and link paths racing for invoice F.
NotifyNext ==
  \/ ReleaseFunds
  \/ VerifyPayoutPost
  \/ \E s \in Slots : ExecutePayout(s) \/ ExecutePayoutLink(s)
  \/ \E s \in Slots : ReferralCreditFails(s, "release_funds", "receipt")
  \/ \E s \in Slots : ReferralCreditFails(s, "verify_post", "receipt")

SpecNotify == CodeInit /\ [][NotifyNext]_vars

\* The reminder job run hour after hour.  Time passes, the schedule keeps
\* starting runs, a run goes on to its end, and neither the mailer nor a
\* statement of the job fails for ever.
RetryNext ==
  \/ Tick(ReminderInstants)
  \/ RunInvoiceReminders
  \/ \E s \in Slots : InvoiceReminders(s)
  \/ \E s \in Slots : ReminderRunReturns(s)

SpecRetry ==
  /\ RemindInit /\ [][RetryNext]_vars
  /\ WF_vars(Tick(ReminderInstants))
  /\ WF_vars(RunInvoiceReminders)
  /\ \A s \in 1 .. MaxReq : /\ WF_vars(InvoiceReminders(s))
                           /\ WF_vars(ReminderRunReturns(s))
                           /\ SF_vars(ReminderSendSucceeds(s))
                           /\ SF_vars(ReminderClaimSucceeds(s))
                           /\ SF_vars(ReminderDeleteSucceeds(s))

\* The referrer's balance.  The seller's referrer was credited 4000 for an
\* earlier invoice; invoice F (400000, a referral share of 2000) is paid and
\* about to be settled by its code; the referrer asks for withdrawals.
ReferInit ==
  /\ payInvoice = [p \in Refs |-> IF p = "pF" THEN "F" ELSE "M"]
  /\ feeGross = 0
  /\ feeHasRef = FALSE
  /\ feeOut = {}
  /\ invStatus = [i \in Invoices |-> IF i = "F" THEN "paid" ELSE "pending"]
  /\ invAmount = [i \in Invoices |-> IF i = "F" THEN 400000 ELSE 1000]
  /\ payStatus = [p \in Refs |-> IF p = "pF" THEN "paid" ELSE "none"]
  /\ cred = [c \in Refs |-> IF c = "pF" THEN "unused" ELSE "none"]
  /\ guests = [i \in Invoices |-> IF i = "F" THEN "momo" ELSE "none"]
  /\ referredBy = Referrer
  /\ earnings = {[key |-> "earlier", earned |-> 4000, req |-> 0]}
  /\ refBalance = 4000
  /\ refWithdrawals = {}
  /\ payouts = {}
  /\ withdraws = {}
  /\ msStatus = [m \in Milestones |-> "pending"]
  /\ msToken = [m \in Milestones |-> NoToken]
  /\ dispStatus = [i \in Invoices |-> "none"]
  /\ processed = {"pF"}
  /\ chats = {"F"}
  /\ mails = {}
  /\ now = 0
  /\ deliveredAt = [i \in Invoices |-> NoTime]
  /\ dispCreatedAt = [i \in Invoices |-> NoTime]
  /\ reminders = {}
  /\ escalations = {}
  /\ settings = DEFAULTS
  /\ cache = {}
  /\ cacheFresh = FALSE
  /\ req = [s \in 1 .. MaxReq |-> Idle]
  /\ answered = Idle
  /\ payAmount = [p \in Refs |-> invAmount[payInvoice[p]]]

ReferNext ==
  \/ ReleaseFunds
  \/ ReferralWithdrawStart
  \/ \E s \in Slots : ExecutePayout(s)
  \/ \E s \in Slots : ReferralWithdraw(s)

SpecRefer == ReferInit /\ [][ReferNext]_vars

\* The mint loop.  The buyer of invoice F was charged twice, references pF
\* and pM, and the gateway confirms both (the guests row's insert failed
\* both times); an INSERT of the loop may collide or fail.  Requests go on to their end, and a generated pair does not
\* collide for ever.
MintInit ==
  /\ payInvoice = [p \in Refs |-> "F"]
  /\ feeGross = 0
  /\ feeHasRef = FALSE
  /\ feeOut = {}
  /\ invStatus = [i \in Invoices |-> "pending"]
  /\ invAmount = [i \in Invoices |-> 1000]
  /\ payStatus = [p \in Refs |-> "pending"]
  /\ cred = [c \in Refs |-> "none"]
  /\ guests = [i \in Invoices |-> "none"]
  /\ referredBy = NULL
  /\ earnings = {}
  /\ refBalance = 0
  /\ refWithdrawals = {}
  /\ payouts = {}
  /\ withdraws = {}
  /\ msStatus = [m \in Milestones |-> "pending"]
  /\ msToken = [m \in Milestones |-> NoToken]
  /\ dispStatus = [i \in Invoices |-> "none"]
  /\ processed = {}
  /\ chats = {}
  /\ mails = {}
  /\ now = 0
  /\ deliveredAt = [i \in Invoices |-> NoTime]
  /\ dispCreatedAt = [i \in Invoices |-> NoTime]
  /\ reminders = {}
  /\ escalations = {}
  /\ settings = DEFAULTS
  /\ cache = {}
  /\ cacheFresh = FALSE
  /\ req = [s \in 1 .. MaxReq |-> Idle]
  /\ answered = Idle
  /\ payAmount = [p \in Refs |-> invAmount[payInvoice[p]]]

MintNext ==
  \/ Webhook
  \/ \E s \in Slots : ProcessSuccessfulPayment(s, "webhook")
  \/ \E s \in Slots : PspMintCollides(s, "webhook")
  \/ \E s \in Slots : PspMintThrows(s, "webhook")

SpecMint ==
  /\ MintInit /\ [][MintNext]_vars
  /\ \A s \in 1 .. MaxReq : WF_vars(ProcessSuccessfulPayment(s, "webhook"))

\* ------------------------------------------- the settings and the guards
\* The guards' requests, the admin's writes of the three flags and the
\* cache's expiry, from the settings at their defaults and an empty cache.
FlagsNext ==
  \/ GuardStart
  \/ AdminSettingsStart
  \/ CacheExpires
  \/ \E s \in Slots : \/ GetSettingsSelect(s)
                      \/ GetSettingsThrows(s)
                      \/ GetSettingsStore(s)
                      \/ SetSettingUpsert(s)
                      \/ SetSettingInvalidate(s)

SpecFlags == CodeInit /\ [][FlagsNext]_vars
\* ====================================================================
\* Claims
\* ====================================================================
SettleKinds == {"release_funds", "verify_post"}

\* The code and link requests for an invoice that are past their checks.
Settling(inv) ==
  {s \in Slots : req[s].kind \in SettleKinds /\ req[s].unit = inv}

\* Those of them whose atomic claim returned a row.
PassedLock(inv) ==
  {s \in Settling(inv) : req[s].pc # "claim"
                          /\ req[s].resp # "500_already_processed"}

WithdrawsBy(S) == {w \in withdraws : w.req \in S}
PayoutsBy(S) == {q \in payouts : q.req \in S}

\* C1: of the code and link settlements fired for an invoice whose
\* credential is unused, exactly one passes the atomic claim; it makes the
\* only withdraw call and, the gateway succeeding, the only Payout record;
\* the others abort as already processed without any withdraw call.
C1_ExactlyOneSettlement ==
  \A inv \in Invoices :
    LET all == Settling(inv)
        won == PassedLock(inv)
    IN  /\ Cardinality(won) <= 1
        /\ (all # {} /\ \A s \in all : req[s].pc # "claim")
             => Cardinality(won) = 1
        /\ WithdrawsBy(all) = WithdrawsBy(won)
        /\ Cardinality(WithdrawsBy(all)) <= 1
        /\ Cardinality(PayoutsBy(all)) <= 1
        /\ \A s \in all :
             /\ req[s].resp = "200_ok" =>
                  /\ Cardinality(WithdrawsBy(all)) = 1
                  /\ Cardinality(PayoutsBy(all)) = 1
                  /\ PayoutsBy({s}) # {}
             /\ (req[s].pc = "done" /\ s \notin won) =>
                  /\ req[s].resp = "500_already_processed"
                  /\ WithdrawsBy({s}) = {}

\* A code request and a link request raced for invoice F: one was paid out,
\* the other lost the claim.
C1_Witness ==
  \E s, t \in Slots :
    /\ req[s].kind = "release_funds" /\ req[t].kind = "verify_post"
    /\ req[s].unit = "F" /\ req[t].unit = "F"
    /\ {req[s].resp, req[t].resp} = {"200_ok", "500_already_processed"}

\* The release requests that presented a token and are past their checks.
Releasing(token) ==
  {s \in Slots : req[s].kind = "ms_post" /\ req[s].cred = token}

\* Those of them whose conditional update returned a row.
PassedMilestoneLock(token) ==
  {s \in Releasing(token) : req[s].pc # "claim"
                             /\ req[s].resp # "400_already_released"}

\* C2: of the POST /release-milestone requests fired with a completed
\* milestone's release token, exactly one wins the conditional update
\* completed -> released; it makes the only withdraw call and the only
\* Payout record; the others are rejected as already released without any
\* withdraw call.
C2_ExactlyOneRelease ==
  \A token \in TokensPresented :
    LET all == Releasing(token)
        won == PassedMilestoneLock(token)
    IN  /\ Cardinality(won) <= 1
        /\ (all # {} /\ \A s \in all : req[s].pc # "claim")
             => Cardinality(won) = 1
        /\ WithdrawsBy(all) = WithdrawsBy(won)
        /\ Cardinality(WithdrawsBy(all)) <= 1
        /\ Cardinality(PayoutsBy(all)) <= 1
        /\ \A s \in all :
             (req[s].pc = "done" /\ s \notin won) =>
               /\ req[s].resp = "400_already_released"
               /\ WithdrawsBy({s}) = {}

\* The requests whose atomic claim succeeded with the credential they hold.
ClaimedWith(c) ==
  {s \in Slots :
     \/ /\ req[s].kind = "ms_post" /\ req[s].cred = c
        /\ req[s].pc # "claim" /\ req[s].resp # "400_already_released"
     \/ /\ req[s].kind \in SettleKinds /\ req[s].cred = c
        /\ req[s].pc # "claim" /\ req[s].resp # "500_already_processed"}

\* C5: once a request has passed the atomic claim with a credential, no
\* later POST presenting that credential gets past its checks; a used
\* confirmation row stays used, and a released milestone stays released
\* and without a release token.
C5_UsedStaysUsed ==
  [][/\ \A u \in Slots :
          (req[u].kind = "idle" /\ req'[u].kind # "idle")
            => ClaimedWith(req'[u].cred) = {}
     /\ \A c \in Refs : cred[c] = "used" => cred'[c] = "used"
     /\ \A m \in Milestones :
          msStatus[m] = "released"
            => msStatus'[m] = "released" /\ msToken'[m] = NoToken]_vars

\* C9: a milestone that is completed or released has every lower-numbered
\* milestone of its invoice released, whatever the interleaving of complete
\* and release requests.
C9_MilestoneOrdering ==
  \A m, p \in Milestones :
    (/\ msStatus[m] \in {"completed", "released"}
     /\ MsInvoice(p) = MsInvoice(m)
     /\ MsNumber(p) < MsNumber(m))
      => msStatus[p] = "released"

ResolveKinds == {"resolve_seller", "resolve_buyer"}

\* The resolve requests for an invoice's dispute that are past their checks.
Resolving(inv) ==
  {s \in Slots : req[s].kind \in ResolveKinds /\ req[s].unit = inv}

\* C3: of the resolve requests fired for an open dispute, exactly one
\* issues a gateway withdraw and records a Payout row; every other one is
\* rejected as already resolved without any transfer.
C3_ExactlyOneResolution ==
  \A inv \in Invoices :
    LET all == Resolving(inv)
    IN  /\ Cardinality(WithdrawsBy(all)) <= 1
        /\ Cardinality(PayoutsBy(all)) <= 1
        /\ Cardinality({s \in all : req[s].resp = "200_ok"}) <= 1

\* Math.floor(gross * 0.02) and Math.floor(gross * 0.005), restated.
Floor2Percent(gross) == (gross * 2) \div 100
FloorHalfPercent(gross) == (gross * 5) \div 1000

EarningRows(key) == {e \in earnings : e.key = key}

\* The requests that ran the referral credit's insert for a key.
RanInsert(key) ==
  {s \in Slots : /\ req[s].kind # "idle" /\ req[s].earn > 0
                 /\ EarningKey(req[s].unit) = key
                 /\ \/ req[s].pc \in {"credit", "finish"}
                    \/ req[s].kind = "ms_post" /\ req[s].pc = "invoice"
                    \/ req[s].pc = "done" /\ req[s].resp = "200_ok"}

\* The sum of the earned amounts of a set of referral_earnings rows.
RECURSIVE SumEarned(_)
SumEarned(rows) ==
  IF rows = {} THEN 0
  ELSE LET e == CHOOSE x \in rows : TRUE
       IN  e.earned + SumEarned(rows \ {e})

Calls(ref) == {s \in Slots : req[s].kind \in PayKinds /\ req[s].unit = ref}

\* Those of them that have run the statement setting the invoice to paid.
MarkedPaid(ref) ==
  {s \in Calls(ref) :
     \/ req[s].pc \in {"mint", "mail_buyer", "chat", "mail_chat", "mail_seller"}
     \/ req[s].pc = "done" /\ req[s].resp = "done"}

\* Those of them that have inserted the invoice's confirmation_codes row.
Minted(ref) ==
  {s \in Calls(ref) :
     \/ req[s].pc \in {"mail_buyer", "chat", "mail_chat", "mail_seller"}
     \/ req[s].pc = "done" /\ req[s].resp = "done"}

\* C4: of the calls of processSuccessfulPayment with one reference of a
\* payment, from the webhook or the poll route, exactly one wins the marker
\* insert; the invoice is set to paid once and one confirmation_codes row
\* is minted for it, by that call; no recipient gets a second chat invite;
\* every other call returns already-done having written and sent nothing.
C4_ProcessedOnce ==
  \A ref \in Refs : payStatus[ref] # "none" =>
    LET calls == Calls(ref)
        won == {s \in calls : req[s].rowCount = 1}
        inv == RefInvoice(ref)
    IN  /\ Cardinality(won) <= 1
        /\ (calls # {} /\ \A s \in calls : req[s].pc # "claim")
             => Cardinality(won) = 1
        /\ (won # {}) = (ref \in processed)
        /\ MarkedPaid(ref) \subseteq won
        /\ Minted(ref) \subseteq won
        /\ Cardinality(CodeRows(inv)) <= 1
        /\ \A to \in {"buyer", "seller"} :
             Cardinality({m \in mails : /\ m.ref = ref
                                        /\ m.type = "chat_invite"
                                        /\ m.to = to}) <= 1
        /\ \A m \in mails : m.ref = ref => m.req \in won
        /\ \A s \in calls :
             /\ (req[s].pc = "done" /\ s \notin won)
                  => req[s].resp = "already_done"
             /\ req[s].resp = "done"
                  => /\ s \in won
                     /\ payStatus[ref] = "paid"
                     /\ invStatus[inv] = "paid"
                     /\ CodeRows(inv) = {ref}
                     /\ inv \in chats

\* The webhook and the poll route raced on reference pF: one call
\* processed the payment, the other returned already-done.
C4_Witness ==
  \E s, t \in Slots :
    /\ req[s].kind = "webhook" /\ req[t].kind = "poll"
    /\ req[s].unit = "pF" /\ req[t].unit = "pF"
    /\ {req[s].resp, req[t].resp} = {"done", "already_done"}
    /\ invStatus["F"] = "paid" /\ cred["pF"] = "unused"
    /\ \E m \in mails : m.type = "chat_invite"

GetKinds == {"verify_get", "ms_get"}

\* C10: a GET of either confirmation page changes nothing in the store,
\* calls no gateway and starts no settlement, whatever the token and the
\* state; the POST it offers then still passes its checks.
C10_GetIsReadOnly ==
  [][(answered' # answered /\ answered'.kind \in GetKinds) =>
       /\ UNCHANGED <<storeVars, req>>
       /\ \A token \in Presented :
            (/\ answered'.kind = "verify_get"
             /\ answered'.resp = "200_confirm_page"
             /\ answered'.cred = token) =>
              (\A payment \in FirstRow(PaymentRows(RefInvoice(token))) :
                 VerifyPayoutChecks(token, RefInvoice(token), payment).pc
                   = "claim")'
       /\ \A token \in TokensPresented :
            (/\ answered'.kind = "ms_get"
             /\ answered'.resp = "200_confirm_page"
             /\ answered'.cred = token) =>
              (/\ MilestoneByToken(token) # {}
               /\ \A milestone \in MilestoneByToken(token) :
                    ReleaseMilestoneChecks(token, milestone).pc = "claim")'
     ]_vars

\* A milestone's confirmation page was shown, and the POST with the same
\* token then released the milestone.
C10_Witness ==
  /\ answered.kind = "ms_get"
  /\ answered.resp = "200_confirm_page"
  /\ \E s \in Slots : /\ req[s].kind = "ms_post"
                      /\ req[s].cred = answered.cred
                      /\ req[s].resp = "200_ok"


\* The link requests in flight settle the invoice their token is bound to,
\* and the :id they came with names that invoice.
BoundToToken ==
  /\ \A s \in Slots : req[s].kind = "verify_post" =>
       /\ req[s].cred \in Refs
       /\ req[s].id = RefInvoice(req[s].cred)
       /\ req[s].unit = RefInvoice(req[s].cred)
  /\ \A w \in withdraws : req[w.req].kind = "verify_post" =>
       w.reference = RefInvoice(req[w.req].cred)
  /\ \A q \in payouts : req[q.req].kind = "verify_post" =>
       q.invoice = RefInvoice(req[q.req].cred)

\* C11: a POST /verify-payout/:token/:id whose :id is not the invoice the
\* token is bound to is answered by the route's checks, before the atomic
\* claim: the step consumes no credential, issues no withdraw and changes
\* no invoice; a request that goes on to the payout has the token's invoice
\* as its :id and pays out that invoice only.
C11_MismatchRejected ==
  [][/\ BoundToToken'
     /\ \A token \in Refs, id \in Invoices :
          (/\ answered' # answered
           /\ answered'.kind = "verify_post"
           /\ answered'.cred = token /\ answered'.id = id
           /\ RefInvoice(token) # id)
            => /\ answered'.resp \in {"404_invalid_link", "400_link_expired",
                                      "400_mismatch"}
               /\ UNCHANGED <<storeVars, req>>]_vars

\* The link of invoice F was posted with M's id and refused as a mismatch:
\* F's credential is still unused and F still paid, while another request
\* has settled M with M's own token.
C11_Witness ==
  /\ answered.kind = "verify_post" /\ answered.resp = "400_mismatch"
  /\ answered.cred = "pF" /\ answered.id = "M"
  /\ cred["pF"] = "unused" /\ invStatus["F"] = "paid"
  /\ \E s \in Slots :
       /\ req[s].kind = "verify_post" /\ req[s].cred = "pM"
       /\ req[s].resp = "200_ok"
       /\ invStatus["M"] = "completed"
       /\ \E w \in withdraws : w.req = s /\ w.reference = "M"

\* The settlement requests whose gateway call failed after their claim.
GatewayFailed ==
  {s \in Slots : /\ req[s].kind \in SettleKinds \cup {"ms_post"}
                 /\ req[s].resp = "500_gateway"}

\* C12: a settlement request (code, link or milestone) whose gateway call
\* failed after its atomic claim has answered with an error, has recorded
\* no withdraw, no Payout row and no referral earning, and has not
\* completed the invoice; its claim stays consumed (the confirmation row
\* used, the milestone released and without a token), and no request has
\* been paid a transfer for that unit.
C12_FailedAttemptStaysClaimed ==
  \A s \in GatewayFailed :
    /\ req[s].pc = "done"
    /\ WithdrawsBy({s}) = {}
    /\ PayoutsBy({s}) = {}
    /\ \A e \in earnings : e.req # s
    /\ \A w \in withdraws : w.to = "seller" => w.reference # req[s].unit
    /\ req[s].kind \in SettleKinds =>
         /\ \A c \in CodeRows(req[s].unit) : cred[c] = "used"
         /\ invStatus[req[s].unit] # "completed"
    /\ req[s].kind = "ms_post" =>
         /\ msStatus[req[s].unit] = "released"
         /\ msToken[req[s].unit] = NoToken

\* The place of a status on the way pending -> paid -> delivered -> completed.
StatusRank(status) ==
  CASE status = "pending" -> 0
    [] status = "paid" -> 1
    [] status = "delivered" -> 2
    [] status = "completed" -> 3
    [] OTHER -> 4

\* A change of an invoice's status that the state machine allows: none
\* from completed or refunded; otherwise forward along the chain, or to
\* expired, or to refunded.
ForwardStatus(from, to) ==
  \/ from = to
  \/ /\ from \notin {"completed", "refunded"}
     /\ \/ to \in {"expired", "refunded"}
        \/ from = "expired" /\ to \in {"paid", "delivered", "completed"}
        \/ /\ from \in {"pending", "paid", "delivered"}
           /\ to \in {"paid", "delivered", "completed"}
           /\ StatusRank(to) > StatusRank(from)

\* C13: every step of payment processing, mark-delivered, link expiry,
\* settlement and dispute resolution moves an invoice's status forward
\* along pending -> paid -> delivered -> completed, or to expired, or to
\* refunded, never backward, and leaves a completed or refunded invoice as
\* it is.
C13_StatusMonotonic ==
  [][\A i \in Invoices : ForwardStatus(invStatus[i], invStatus'[i])]_vars

\* The transfers made for an invoice: to the seller under the invoice's or
\* a milestone's reference, to the buyer under the refund's.
WithdrawsFor(inv) ==
  {w \in withdraws :
     \/ w.reference = inv
     \/ w.reference = RefundReference(inv)
     \/ w.reference \in {m \in Milestones : MsInvoice(m) = inv}}

\* C15: while an invoice's dispute is open, no code, link or milestone
\* settlement makes a transfer for the invoice.
C15_NoReleaseWhileDisputed ==
  [][\A i \in Invoices :
       dispStatus[i] = "open" =>
         \A w \in WithdrawsFor(i)' \ WithdrawsFor(i) :
           req[w.req].kind \notin SettleKinds \cup {"ms_post"}]_vars

\* The sum of the amounts of a set of withdraw calls.
RECURSIVE SumWithdrawn(_)
SumWithdrawn(calls) ==
  IF calls = {} THEN 0
  ELSE LET w == CHOOSE x \in calls : TRUE
       IN  w.amount + SumWithdrawn(calls \ {w})

\* C19: the amounts withdrawn for an invoice over all settlement paths
\* (code, link, milestones, dispute payout, dispute refund) never sum to
\* more than the invoice's gross amount; no invoice is both refunded to the
\* buyer and paid out to the seller.
C19_NeverOverpaid ==
  \A i \in Invoices :
    /\ SumWithdrawn(WithdrawsFor(i)) <= invAmount[i]
    /\ ~ \E w, v \in WithdrawsFor(i) : w.to = "buyer" /\ v.to = "seller"

\* A POST /dispute/open request with these parameters is answered by the
\* route's checks in this step.
OpenRefused(invoicenumber, opened_by, token) ==
  /\ answered' # answered
  /\ answered'.kind = "open_dispute"
  /\ answered'.unit = invoicenumber
  /\ answered'.opened_by = opened_by
  /\ answered'.cred = token

\* A POST /dispute/open request with these parameters passes the route's
\* checks in this step.
OpenAccepted(invoicenumber, opened_by, token) ==
  \E s \in Slots :
    /\ req[s].kind = "idle"
    /\ req'[s].kind = "open_dispute"
    /\ req'[s].unit = invoicenumber
    /\ req'[s].opened_by = opened_by
    /\ req'[s].cred = token

\* C14: POST /dispute/open/:invoicenumber is refused, and no dispute row
\* appears, when the invoice is neither paid nor delivered, or when the
\* seller opens and the invoice is not delivered or was delivered less than
\* 48 hours ago; the seller is not refused for the time from 48 hours on,
\* and the buyer, with the invoice's chat token, at no time; a dispute row
\* is only written by a request that passed these checks.
C14_OpenPreconditions ==
  [][/\ \A i \in Invoices, opened_by \in {"seller", "buyer"},
          token \in OpenTokens :
          /\ (\/ invStatus[i] \notin {"paid", "delivered"}
              \/ /\ opened_by = "seller"
                 /\ \/ invStatus[i] # "delivered"
                    \/ now - deliveredAt[i] < 48 * Hour)
               => /\ ~ OpenAccepted(i, opened_by, token)
                  /\ OpenRefused(i, opened_by, token) =>
                       /\ answered'.resp \in {"403_not_paid",
                            "403_not_delivered", "403_too_early"}
                       /\ UNCHANGED <<dispStatus, dispCreatedAt>>
          /\ (/\ invStatus[i] \in {"paid", "delivered"}
              /\ dispStatus[i] = "none"
              /\ \/ /\ opened_by = "seller"
                    /\ invStatus[i] = "delivered"
                    /\ now - deliveredAt[i] >= 48 * Hour
                 \/ /\ opened_by = "buyer"
                    /\ token = "chat" /\ guests[i] # "none")
               => ~ OpenRefused(i, opened_by, token)
     /\ \A i \in Invoices :
          dispStatus'[i] # dispStatus[i] =>
            /\ dispStatus[i] = "none" /\ dispStatus'[i] = "open"
            /\ \E s \in Slots : /\ At(s, "open_dispute", "insert")
                                /\ req[s].unit = i]_vars

\* The seller was refused a minute short of 48 hours after the delivery,
\* and the seller's request exactly 48 hours after it opened the dispute.
C14_Witness ==
  /\ answered.kind = "open_dispute" /\ answered.opened_by = "seller"
  /\ answered.unit = "F" /\ answered.resp = "403_too_early"
  /\ \E s \in Slots :
       /\ req[s].kind = "open_dispute" /\ req[s].opened_by = "seller"
       /\ req[s].unit = "F" /\ req[s].resp = "200_ok"
  /\ dispStatus["F"] = "open"
  /\ dispCreatedAt["F"] - deliveredAt["F"] = 48 * Hour

\* The runs of the reminder job that are sending a pair's reminder.
ReminderSending(i, l) ==
  {s \in Slots : /\ At(s, "reminders", "send")
                 /\ req[s].unit = i /\ req[s].level = l}

\* The reminders of a pair that the mailer took.
ReminderSent(i, l) ==
  {m \in mails : m.type = "reminder" /\ m.ref = i /\ m.level = l}

\* The invoice_reminders rows of a pair.
ReminderRowsOf(i, l) ==
  {row \in reminders : row.invoicenumber = i /\ row.reminder_level = l}

\* C16: for every (invoice number, reminder level) pair and whatever runs
\* of the reminder job overlap, a run sends the pair's reminder only while
\* it holds the invoice_reminders row its own insert created; at most one
\* send of the pair is in flight at a time, at most one is ever taken by
\* the mailer, and after that one none is in flight.
C16_OneReminderPerLevel ==
  \A i \in Invoices, l \in 1 .. 3 :
    /\ Cardinality(ReminderRowsOf(i, l)) <= 1
    /\ Cardinality(ReminderSending(i, l)) <= 1
    /\ Cardinality(ReminderSent(i, l)) <= 1
    /\ \A s \in ReminderSending(i, l) :
         \E row \in ReminderRowsOf(i, l) : row.id = s
    /\ \A m \in ReminderSent(i, l) :
         /\ ReminderSending(i, l) = {}
         /\ \E row \in ReminderRowsOf(i, l) : row.id = m.req

\* Two runs of the job both went through levels 1 and 2 of one invoice:
\* each level was sent once, by different runs.
C16_Witness ==
  \E s, t \in Slots, i \in Invoices :
    /\ s # t
    /\ \A u \in {s, t} : /\ req[u].kind = "reminders" /\ req[u].pc = "done"
                         /\ req[u].unit = i /\ req[u].level = 2
    /\ \E m \in ReminderSent(i, 1) : m.req = s
    /\ \E m \in ReminderSent(i, 2) : m.req = t
    /\ Cardinality(ReminderSent(i, 1)) = 1
    /\ Cardinality(ReminderSent(i, 2)) = 1

\* The admin alerts of a (dispute, level) pair that the mailer took.
EscalationSent(i, l) ==
  {m \in mails : m.type = "escalation" /\ m.ref = i /\ m.level = l}

\* C17: for every (dispute, level) pair the admin alert is sent at most
\* once, whatever runs of the escalation job overlap or follow each other.
C17_OneEscalationPerLevel ==
  \A i \in Invoices, l \in 1 .. 2 : Cardinality(EscalationSent(i, l)) <= 1

\* The requests that trigger a settlement.
SettlementKinds == {"release_funds", "verify_post", "ms_post"}

\* C18: while the serving process sees payouts_blocked as true, a request
\* to POST /api/release-funds, POST /api/verify-payout/:token/:id or POST
\* /api/release-milestone/:token never passes into its claim, and the only
\* answer such a request gets is the 503.
C18_BlockedRefusesSettlement ==
  [][(Bool(settings, "payouts_blocked") /\ settings' = settings)
     => /\ \A s \in Slots :
             req[s].kind = "idle" => req'[s].kind \notin SettlementKinds
        /\ (answered' # answered /\ answered'.kind \in SettlementKinds)
             => answered'.resp = "503_payouts_blocked"]_vars

\* The step is the atomic claim of slot s flipping its row: the
\* confirmation code of the invoice from unused to used, or the milestone
\* from completed to released.
ClaimReturnsRow(s) ==
  IF req[s].kind = "ms_post"
  THEN /\ req[s].unit \in Milestones
       /\ msStatus[req[s].unit] = "completed"
       /\ msStatus'[req[s].unit] = "released"
  ELSE \E c \in Refs : /\ RefInvoice(c) = req[s].unit
                       /\ cred[c] = "unused" /\ cred'[c] = "used"

\* The answers of a request that lost the claim.
LostClaim == {"500_already_processed", "400_already_released"}

\* C20: in the three credential-based settlement paths a request's gateway
\* withdraw is a step of its own that the request takes from its transfer
\* position; it enters that position only by its own claim step, and only
\* when that step flipped the row; a claim step that flips nothing ends
\* the request with the already-processed answer, and such a request has
\* no withdraw; no step both claims and withdraws.
C20_ClaimBeforeTransfer ==
  [][/\ \A w \in withdraws' \ withdraws :
          /\ req[w.req].kind \in SettlementKinds
          /\ req[w.req].pc = "transfer"
          /\ cred' = cred /\ msStatus' = msStatus
     /\ \A s \in Slots :
          /\ (/\ req'[s].kind \in SettlementKinds
              /\ req'[s].pc = "transfer" /\ req[s].pc # "transfer")
             => (req[s].pc = "claim" /\ ClaimReturnsRow(s))
          /\ (/\ req[s].kind \in SettlementKinds
              /\ req[s].pc = "claim" /\ req'[s] # req[s]
              /\ ~ ClaimReturnsRow(s))
             => (req'[s].pc = "done" /\ req'[s].resp \in LostClaim)
          /\ (req'[s].pc = "done" /\ req'[s].resp \in LostClaim)
             => ~ \E w \in withdraws' : w.req = s]_vars

\* Two requests for one unit passed their checks: one lost the claim and
\* was answered so, the other's withdraw went through.
C20_Witness ==
  \E s, t \in Slots :
    /\ s # t
    /\ req[s].kind \in SettlementKinds /\ req[t].kind \in SettlementKinds
    /\ req[s].unit = req[t].unit
    /\ req[s].pc = "done" /\ req[s].resp \in LostClaim
    /\ \E w \in withdraws : w.req = t
    /\ ~ \E w \in withdraws : w.req = s

\* ==================================================== payments and amounts
\* The payments rows of an invoice that have status paid.
PaidPayments(inv) == {p \in PaymentRows(inv) : payStatus[p] = "paid"}

\* C21: whatever payment attempts an invoice has and however their
\* processing overlaps, at most one payments row of the invoice has status
\* paid.
C21_OnePaidAttempt ==
  \A i \in Invoices : Cardinality(PaidPayments(i)) <= 1

\* The invoice a withdraw call was made for, from its external reference.
ReferenceInvoice(reference) ==
  IF reference \in Milestones THEN MsInvoice(reference)
  ELSE IF \E i \in Invoices : RefundReference(i) = reference
    THEN CHOOSE i \in Invoices : RefundReference(i) = reference
  ELSE reference

\* C22: every transfer to the seller, for an invoice or for one of its
\* milestones, is for an invoice that has a payments row with status paid.
C22_TransferOnlyWhenPaid ==
  \A w \in withdraws :
    w.to = "seller" => PaidPayments(ReferenceInvoice(w.reference)) # {}

\* The sum of the amounts of a set of payments rows.
RECURSIVE SumCharged(_)
SumCharged(rows) ==
  IF rows = {} THEN 0
  ELSE LET p == CHOOSE x \in rows : TRUE
       IN  payAmount[p] + SumCharged(rows \ {p})

\* C23: the amounts transferred out for an invoice never sum to more than
\* the amounts charged in its paid payments.
C23_NeverPaysMoreThanCharged ==
  \A i \in Invoices :
    SumWithdrawn(WithdrawsFor(i)) <= SumCharged(PaidPayments(i))

\* The payouts rows of an invoice.
PayoutsFor(inv) == {q \in payouts : q.invoice = inv}

PspInProgress(p) ==
  {s \in Slots : /\ req[s].kind \in PayKinds
                 /\ req[s].unit = p /\ req[s].pc # "done"}

\* C25: whenever a processed_payments marker exists for the reference of
\* a payments row and no processSuccessfulPayment call for the reference
\* is in progress, the payment has status paid, its invoice is no longer
\* pending and the invoice has a confirmation_codes row; markers are never
\* deleted.
C25_MarkerMeansProcessed ==
  [][/\ processed \subseteq processed'
     /\ \A p \in processed' :
          (payStatus'[p] # "none" /\ PspInProgress(p)' = {})
          => /\ payStatus'[p] = "paid"
             /\ invStatus'[payInvoice'[p]] # "pending"
             /\ \E c \in Refs : payInvoice'[c] = payInvoice'[p]
                                /\ cred'[c] # "none"]_vars

\* ============================================== the milestones' completion
\* C26: a milestone release marks the invoice completed only in a state
\* in which every milestone of the invoice is released.
C26_CompletedWhenAllReleased ==
  [][\A s \in Slots :
       (/\ At(s, "ms_post", "invoice")
        /\ invStatus'[MsInvoice(req[s].unit)] = "completed"
        /\ req'[s].pc = "done")
       => Remaining(MsInvoice(req[s].unit)) = 0]_vars

\* C27: when an installment invoice is completed, every milestone of it
\* has a successful transfer, and the invoice has a payouts row for each.
C27_CompletedMeansAllPaid ==
  \A i \in Invoices :
    invStatus[i] = "completed" =>
      LET ms == {m \in Milestones : MsInvoice(m) = i} IN
        /\ \A m \in ms : \E w \in withdraws : w.reference = m
        /\ Cardinality(PayoutsFor(i)) >= Cardinality(ms)

\* ================================================== the disputes' life
\* C28: an invoice has at most one dispute row, also when two requests to
\* open a dispute on it are served concurrently.
C28_OneDisputePerInvoice ==
  \A i \in Invoices : Cardinality(DisputeRows(i)) <= 1

\* C29: a dispute's status goes from open to resolved_seller or
\* resolved_buyer and stays there: a resolved dispute never changes its
\* status again, whatever the interleaving of the resolve requests.
C29_ResolutionIsTerminal ==
  [][\A i \in Invoices :
       /\ dispStatus[i] = "open"
            => dispStatus'[i] \in {"open", "resolved_seller", "resolved_buyer"}
       /\ dispStatus[i] \in {"resolved_seller", "resolved_buyer"}
            => dispStatus'[i] = dispStatus[i]]_vars

\* ================================================ the code's comparison
\* C30: a POST /release-funds whose code is not the invoice's stored code is
\* answered by the route's checks and never reaches the claim: the step
\* consumes no credential, issues no withdraw and changes nothing; no
\* request goes on to executePayout with a code that is not the invoice's;
\* and the invoice's own code, posted in the state the refusal leaves, passes
\* the checks and goes on to the claim.
C30_WrongCodeRejected ==
  [][/\ \A s \in Slots :
          (req[s].kind = "idle" /\ req'[s].kind = "release_funds")
            => /\ req'[s].cred \in CodeRows(req'[s].unit)
               /\ cred[req'[s].cred] = "unused"
     /\ (/\ answered' # answered
         /\ answered'.kind = "release_funds"
         /\ answered'.resp = "401_wrong_code")
          => /\ UNCHANGED <<storeVars, req>>
             /\ answered'.cred \notin CodeRows(answered'.unit)
             /\ \E codeRow \in CodeRows(answered'.unit),
                   payment \in PaymentRows(answered'.unit) :
                  /\ cred'[codeRow] = "unused"
                  /\ ReleaseFundsChecks(answered'.unit, codeRow, payment,
                                        codeRow).pc = "claim"]_vars

\* Invoice F's release was refused for a wrong code, and a later request
\* with F's own code has settled it: one withdraw, the invoice completed.
C30_Witness ==
  /\ answered.kind = "release_funds" /\ answered.resp = "401_wrong_code"
  /\ answered.unit = "F" /\ answered.cred # "pF"
  /\ \E s \in Slots :
       /\ req[s].kind = "release_funds" /\ req[s].cred = "pF"
       /\ req[s].resp = "200_ok"
       /\ cred["pF"] = "used" /\ invStatus["F"] = "completed"
       /\ \E w \in withdraws : w.req = s /\ w.reference = "F"
       /\ \E q \in payouts : q.req = s

\* ============================================ the settlement's last steps
\* The settlement requests whose transfer succeeded and that have answered.
Transferred ==
  {s \in Slots : /\ req[s].kind \in SettleKinds /\ req[s].pc = "done"
                 /\ WithdrawsBy({s}) # {}}

\* Every request whose transfer succeeded has answered 200, its Payout row
\* is recorded, its invoice completed and the invoice's credential used.
TransferredSettled ==
  \A s \in Transferred :
    /\ req[s].resp = "200_ok"
    /\ PayoutsBy({s}) # {}
    /\ invStatus[req[s].unit] = "completed"
    /\ \A c \in CodeRows(req[s].unit) : cred[c] = "used"

ReminderDue(i, l) ==
  /\ \E k \in 1 .. Len(ReminderRows) : ReminderRows[k] = i
  /\ HoursSinceAtLeast(GuestsCreatedAt(i), 24 * l)

\* C32: with the job run again and again and a mailer that does not fail
\* for ever, a reminder level that is due for a pending invoice is sent in
\* the end (or stops being due), also after a send of it has failed.
C32_DueReminderIsSent ==
  \A i \in Invoices, l \in 1 .. 3 :
    ReminderDue(i, l) ~> (ReminderSent(i, l) # {} \/ ~ ReminderDue(i, l))

\* ============================================ the referrer's withdrawals
\* The referral withdrawals whose transfer is under way or may still be
\* made: logged as pending, or deducted and about to be logged.
WithdrawalsInFlight ==
  {s \in Slots : /\ req[s].kind = "ref_withdraw"
                 /\ req[s].pc \in {"log", "transfer", "paid", "restore",
                                   "failed"}}

\* C33: of the referrer's concurrent withdrawal requests one at most gets
\* past the deduction at a time: the referrer never has two pending
\* referral_withdrawals rows, nor two withdrawals in flight.
C33_OnePendingWithdrawal ==
  /\ Cardinality(WithdrawalRows("pending")) <= 1
  /\ Cardinality(WithdrawalsInFlight) <= 1

\* The withdrawal requests whose deduction stands: past the deduction and
\* not (yet) restored.
Deducted ==
  {s \in Slots : /\ req[s].kind = "ref_withdraw"
                 /\ \/ req[s].pc \in {"log", "transfer", "paid", "restore"}
                    \/ req[s].pc = "done" /\ req[s].resp = "200_ok"}

\* The sum of the amounts of a set of withdrawal requests.
RECURSIVE SumAsked(_)
SumAsked(S) ==
  IF S = {} THEN 0
  ELSE LET s == CHOOSE x \in S : TRUE
       IN  req[s].pays + SumAsked(S \ {s})

\* What the referrer was credited: the earnings rows whose balance update
\* has run.
Credited ==
  SumEarned({e \in earnings : e.req \notin Slots \/ req[e.req].pc # "credit"})

C35_BalanceNeverNegative ==
  /\ refBalance >= 0
  /\ SumWithdrawn(WithdrawalRows("paid")) <= Credited
  /\ SumWithdrawn(WithdrawalRows("paid")) + refBalance <= Credited

\* The share of invoice F was credited on top of the earlier 4000 and a
\* withdrawal of 3000 was paid: 3000 are left.
C35_Witness ==
  /\ \E e \in earnings : e.key = "F" /\ e.earned = 2000
  /\ Credited = 6000
  /\ \E row \in WithdrawalRows("paid") : row.amount = 3000
  /\ refBalance = 3000

RECURSIVE SumMilestones(_)
SumMilestones(ms) ==
  IF ms = {} THEN 0
  ELSE LET m == CHOOSE x \in ms : TRUE
       IN  MsAmount(m) + SumMilestones(ms \ {m})

\* C37: the amounts of an installment invoice's milestones add up to the
\* invoice's amount in every state, whatever is done to the invoice after
\* its creation.
C37_MilestonesSumToInvoice ==
  \A i \in {MsInvoice(m) : m \in Milestones} :
    SumMilestones({m \in Milestones : MsInvoice(m) = i}) = invAmount[i]

\* ==================================================== the settings cache
\* A setSetting() call is between its upsert and its invalidateCache().
WriteUnderWay == \E s \in Slots : At(s, "set_setting", "invalidate")

\* What a getSettings() call that starts now returns at once.
CacheHit == IF cache # {} /\ cacheFresh THEN cache ELSE {}

\* C38: once every setSetting() has completed, a getSettings() call that
\* is served from the cache returns the stored values, a refresh that was
\* in flight during the write or not.
C38_CacheServesLastWrite ==
  ~WriteUnderWay => \A c \in CacheHit : c = settings

\* ========================================================== the guards
\* The guards' requests that have been decided.
Guarded ==
  {r \in {req[s] : s \in Slots} \cup {answered} :
     r.kind = "guard" /\ r.pc = "done"}

\* C39: a guard whose read of the settings failed calls next(), and a
\* guard answers its 503 only when the settings were read and its flag in
\* them is "true".
C39_GuardsFailOpen ==
  \A r \in Guarded :
    /\ r.cred = "error" => r.resp = "next"
    /\ r.resp # "next" => /\ r.resp = GuardRefusal(r.unit)
                          /\ r.cred \in {"cache", "rows"}
                          /\ Bool(r.rows, r.unit)

\* A guard whose read of the settings failed has let its request through
\* while its flag was "true" in the store.
C39_Witness ==
  \E r \in Guarded :
    r.cred = "error" /\ r.resp = "next" /\ Bool(settings, r.unit)
====
